---- MODULE Spec2Model ----
(***************************************************************************)
(* A model of the Driver Manager (driver_manager/driver_manager.py): the   *)
(* manager loop run_forever, the command handler send_command, driver      *)
(* provisioning (setup_drivers, find_compatible_driver, start_driver,      *)
(* add_driver_variables), the reconciler run_once and shutdown             *)
(* (clean_drivers).  Python dicts are functions with a finite domain; the  *)
(* insertion-ordered dicts whose order the code depends on (the driver     *)
(* registry, the payloads the host sends) are sequences.  A driver name    *)
(* DRIVER_<n> is the number n.                                             *)
(***************************************************************************)
EXTENDS Integers, Sequences, FiniteSets, TLC

VARIABLES
    drivers,            \* self._drivers: the registry, in insertion order
    driver_counter,     \* self._driver_counter
    handles,            \* self._handles: var handle -> <<var_id, driver name>>
    running,            \* self._running
    status_updates,     \* self._status_updates
    info_updates,       \* self._info_updates
    var_info_updates,   \* self._var_info_updates
    value_updates,      \* self._value_updates
    stats_updates,      \* self._stats_updates
    last_status_record, \* self._last_status_record
    logs,               \* the entries appended to self._logs by the last manager step
    now,                \* int(time.perf_counter()) - self._start_time
    pc,                 \* where run_forever stands
    counter,            \* run_forever's count of host frames handled in this iteration
    hostIn,             \* host channel: frames the host sent, not yet received
    hostOut,            \* host channel: frames the last manager step sent to the host
    sent,               \* worker channels: messages the last manager step sent to workers
    procs,              \* driver name -> state of its worker task
    joined,             \* names of the workers whose join() has returned
    attach,             \* history: the setup entries that obtained a driver record
    wvalues,            \* history: per variable, the values its worker has sent
    hvalues,            \* history: per variable handle, the values sent to the host
    used,               \* how much of its bounded input the environment has sent
    handled,            \* history: the host frame the manager handled last in this iteration
    stats_sent,         \* history: the number of STATS frames sent to the host
    fvalues,            \* history: per variable, the value last forwarded to its worker
    infos,              \* history: per driver, the non-latency INFO texts received from it
    marks               \* history: the <<handle, driver>> pairs attached by reuse since the last STATUS frame

vars == <<pc, counter, used, now, running, driver_counter, last_status_record, procs,
          joined, stats_sent, drivers, handles, status_updates, info_updates,
          var_info_updates, value_updates, stats_updates, logs, hostIn, hostOut, sent,
          attach, wvalues, hvalues, handled, fvalues, infos, marks>>

-----------------------------------------------------------------------------
(* Values and dicts *)

None == "None"

EmptyDict == <<>>

Put(d, k, v) == [z \in (DOMAIN d) \cup {k} |-> IF z = k THEN v ELSE d[z]]

DictUpdate(d, e) == [z \in (DOMAIN d) \cup (DOMAIN e) |-> IF z \in DOMAIN e THEN e[z] ELSE d[z]]

Truthy(d) == DOMAIN d # {}

Range(s) == {s[i] : i \in DOMAIN s}

\* A (command, data) tuple on the host channel
Frame(cmd, data) == [cmd |-> cmd, data |-> data]

\* DriverStatus (the values workers report) and the record's initial status
SETUP == "SETUP"
RUNNING == "RUNNING"
ERROR == "ERROR"
EXITED == "EXITED"
DriverStatus == {SETUP, RUNNING, ERROR, EXITED}
InitialStatus == ""

\* registered_drivers: the classes a worker can be launched for
registered_drivers == {"udp_driver", "s7protocol"}

\* An optional parameters mapping: setup_data.get("parameters", None)
NoParams == [d |-> EmptyDict, isnone |-> TRUE]
Params(d) == [d |-> d, isnone |-> FALSE]

-----------------------------------------------------------------------------
(* DriverStructure and VariableStructure *)

VariableStructure(handle, var_data) ==
    [handlers |-> <<handle>>, parameters |-> var_data, value |-> None,
     info |-> "", write_count |-> 0, read_count |-> 0]

DriverStructure(class_name, driver_name, handle, parameters) ==
    [handlers |-> <<handle>>, parameters |-> parameters, info |-> "",
     class_name |-> class_name, name |-> driver_name, variables |-> EmptyDict,
     status |-> InitialStatus, info_log |-> <<>>, latency |-> "", pipe |-> <<>>,
     updates |-> EmptyDict]

add_handle(struct, handle) == [struct EXCEPT !.handlers = Append(@, handle)]

\* is_compatible comparing the class alone
is_compatible_class_only(d, driver_data) ==
    IF d.class_name = driver_data.DRIVER
    THEN IF driver_data.parameters.isnone THEN "raise"
         ELSE IF DOMAIN driver_data.parameters.d = {} THEN "true"
         ELSE IF d.parameters.isnone THEN "raise"
         ELSE "true"
    ELSE "false"

\* is_compatible that also wants every key of the request among the driver's
is_compatible_all_keys(d, driver_data) ==
    IF d.class_name = driver_data.DRIVER
    THEN IF driver_data.parameters.isnone THEN "raise"
         ELSE IF DOMAIN driver_data.parameters.d = {} THEN "true"
         ELSE IF d.parameters.isnone THEN "raise"
         ELSE IF \E key \in DOMAIN driver_data.parameters.d :
                    \/ key \notin DOMAIN d.parameters.d
                    \/ d.parameters.d[key] # driver_data.parameters.d[key]
              THEN "false" ELSE "true"
    ELSE "false"

\* is_compatible: "true", "false", or "raise" when the code raises
\* (parameters.items() on None, or `key in self.parameters` on None)
is_compatible(d, driver_data) ==
    IF d.class_name = driver_data.DRIVER
    THEN IF driver_data.parameters.isnone THEN "raise"
         ELSE IF DOMAIN driver_data.parameters.d = {} THEN "true"
         ELSE IF d.parameters.isnone THEN "raise"
         ELSE IF \E key \in DOMAIN driver_data.parameters.d :
                    /\ key \in DOMAIN d.parameters.d
                    /\ d.parameters.d[key] # driver_data.parameters.d[key]
              THEN "false" ELSE "true"
    ELSE "false"

\* AddVars giving an aliased variable a fresh start: the value is forgotten, so
\* that the worker's next report reaches the new handle
RECURSIVE AddVars_alias_forgets_value(_, _, _)
AddVars_alias_forgets_value(acc, variables, i) ==
    IF i > Len(variables) THEN acc
    ELSE LET var_id == variables[i].id
             var_data == variables[i].data
             var_handle == var_data.handle
         IN IF var_handle = None THEN AddVars_alias_forgets_value(acc, variables, i + 1)
            ELSE LET d1 == IF var_id \notin DOMAIN acc.d.variables
                           THEN [acc.d EXCEPT !.variables =
                                    Put(@, var_id, VariableStructure(var_handle, var_data))]
                           ELSE [acc.d EXCEPT !.variables[var_id] =
                                    [add_handle(@, var_handle) EXCEPT !.value = None]]
                     new == IF var_id \notin DOMAIN acc.d.variables
                            THEN Put(acc.var_setup_data, var_id, var_data)
                            ELSE acc.var_setup_data
                 IN AddVars_alias_forgets_value([d |-> d1,
                             var_setup_data |-> new,
                             res |-> Put(acc.res, var_handle, <<var_id, acc.d.name>>)],
                            variables, i + 1)

\* add_driver_variables, one variable at a time: acc = [d, res, var_setup_data]
RECURSIVE AddVars(_, _, _)
AddVars(acc, variables, i) ==
    IF i > Len(variables) THEN acc
    ELSE LET var_id == variables[i].id
             var_data == variables[i].data
             var_handle == var_data.handle
         IN IF var_handle = None THEN AddVars(acc, variables, i + 1)
            ELSE LET d1 == IF var_id \notin DOMAIN acc.d.variables
                           THEN [acc.d EXCEPT !.variables =
                                    Put(@, var_id, VariableStructure(var_handle, var_data))]
                           ELSE [acc.d EXCEPT !.variables[var_id] = add_handle(@, var_handle)]
                     new == IF var_id \notin DOMAIN acc.d.variables
                            THEN Put(acc.var_setup_data, var_id, var_data)
                            ELSE acc.var_setup_data
                 IN AddVars([d |-> d1,
                             var_setup_data |-> new,
                             res |-> Put(acc.res, var_handle, <<var_id, acc.d.name>>)],
                            variables, i + 1)

\* add_driver_variables notifying the worker in every call
add_driver_variables_always_notifies(d, variables) ==
    LET acc == AddVars([d |-> d, var_setup_data |-> EmptyDict, res |-> EmptyDict],
                       variables, 1)
    IN [d |-> acc.d, res |-> acc.res,
        msgs |-> <<[cmd |-> "ADD_VARIABLES", data |-> acc.var_setup_data, to |-> d.name]>>]

\* add_driver_variables: [d: the driver after, res: the handle-index delta,
\* msgs: the ADD_VARIABLES message sent to the worker, if any]
add_driver_variables(d, variables) ==
    LET acc == AddVars([d |-> d, var_setup_data |-> EmptyDict, res |-> EmptyDict],
                       variables, 1)
    IN [d |-> acc.d, res |-> acc.res,
        msgs |-> IF Truthy(acc.var_setup_data)
                 THEN <<[cmd |-> "ADD_VARIABLES", data |-> acc.var_setup_data, to |-> d.name]>>
                 ELSE <<>>]

-----------------------------------------------------------------------------
(* The part of the manager's state the command handlers work on *)

Mgr == [drivers |-> drivers, driver_counter |-> driver_counter, handles |-> handles,
        status_updates |-> status_updates, logs |-> <<>>, sent |-> <<>>,
        procs |-> procs, attach |-> attach, raised |-> FALSE]

Log(m, level, text) == [m EXCEPT !.logs = Append(@, <<level, text>>)]

\* find_compatible_driver: the index of the first compatible driver, 0 for
\* none, -1 when is_compatible raises
RECURSIVE find_from(_, _, _)
find_from(ds, driver_data, i) ==
    IF i > Len(ds) THEN 0
    ELSE LET c == is_compatible(ds[i], driver_data)
         IN IF c = "raise" THEN -1
            ELSE IF c = "true" THEN i
            ELSE find_from(ds, driver_data, i + 1)

\* find_compatible_driver starting its search one driver too late
find_compatible_driver_skip_first(ds, driver_data) == find_from(ds, driver_data, 2)

find_compatible_driver(ds, driver_data) == find_from(ds, driver_data, 1)

\* start_driver: the manager state after, and the new record (ok) or None
\* start_driver naming the driver after the number of records in the registry
start_driver_count_records(m, driver_handle, driver_data) ==
    IF driver_data.DRIVER \in registered_drivers
    THEN LET n == Len(m.drivers) + 1
         IN [m |-> [m EXCEPT !.driver_counter = n,
                             !.procs = Put(@, n, "started")],
             ok |-> TRUE,
             new_driver |-> DriverStructure(driver_data.DRIVER, n, driver_handle,
                                            driver_data.parameters)]
    ELSE [m |-> m, ok |-> FALSE, new_driver |-> None]

\* start_driver taking a driver name before it looks the class up
start_driver_count_first(m, driver_handle, driver_data) ==
    LET n == m.driver_counter + 1
    IN IF driver_data.DRIVER \in registered_drivers
       THEN [m |-> [m EXCEPT !.driver_counter = n,
                             !.procs = Put(@, n, "started")],
             ok |-> TRUE,
             new_driver |-> DriverStructure(driver_data.DRIVER, n, driver_handle,
                                            driver_data.parameters)]
       ELSE [m |-> [m EXCEPT !.driver_counter = n], ok |-> FALSE, new_driver |-> None]

start_driver(m, driver_handle, driver_data) ==
    IF driver_data.DRIVER \in registered_drivers
    THEN LET n == m.driver_counter + 1
         IN [m |-> [m EXCEPT !.driver_counter = n,
                             !.procs = Put(@, n, "started")],
             ok |-> TRUE,
             new_driver |-> DriverStructure(driver_data.DRIVER, n, driver_handle,
                                            driver_data.parameters)]
    ELSE [m |-> m, ok |-> FALSE, new_driver |-> None]

\* RegisterVariables putting the driver back to SETUP
RegisterVariables_resets_status(m, i, driver_handle, driver_data) ==
    LET r == add_driver_variables(m.drivers[i], driver_data.variables)
    IN [m EXCEPT !.drivers[i] = [r.d EXCEPT !.status = SETUP],
                 !.handles = DictUpdate(@, r.res),
                 !.sent = @ \o r.msgs,
                 !.attach = @ \cup {[handle |-> driver_handle,
                                     parameters |-> driver_data.parameters,
                                     class_name |-> driver_data.DRIVER,
                                     name |-> m.drivers[i].name]}]

\* The tail of one setup_drivers entry: register the entry's variables on the
\* driver at index i and merge the delta into the Handle Index
RegisterVariables(m, i, driver_handle, driver_data) ==
    LET r == add_driver_variables(m.drivers[i], driver_data.variables)
    IN [m EXCEPT !.drivers[i] = r.d,
                 !.handles = DictUpdate(@, r.res),
                 !.sent = @ \o r.msgs,
                 !.attach = @ \cup {[handle |-> driver_handle,
                                     parameters |-> driver_data.parameters,
                                     class_name |-> driver_data.DRIVER,
                                     name |-> m.drivers[i].name]}]

\* setup_entry answering "SUCCESS" for an entry whose worker was not started
setup_entry_always_success(m, driver_handle, driver_data) ==
    LET i == find_compatible_driver(m.drivers, driver_data)
    IN IF i = -1 THEN [res |-> None, m |-> [m EXCEPT !.raised = TRUE]]
       ELSE IF i > 0
       THEN LET m1 == [m EXCEPT !.drivers[i] = add_handle(@, driver_handle),
                                !.status_updates = Put(@, driver_handle, m.drivers[i].status)]
            IN [res |-> "SUCCESS",
                m |-> RegisterVariables(Log(m1, "info", "using compatible driver"),
                                        i, driver_handle, driver_data)]
       ELSE LET s == start_driver(m, driver_handle, driver_data)
            IN IF s.ok
               THEN LET m1 == [s.m EXCEPT !.drivers = Append(@, s.new_driver)]
                    IN [res |-> "SUCCESS",
                        m |-> RegisterVariables(Log(m1, "info", "new driver started"),
                                                Len(m1.drivers), driver_handle, driver_data)]
               ELSE [res |-> "SUCCESS", m |-> s.m]

\* One entry of setup_drivers: [m, res] with res the reply for the handle
\* (None when the entry raised)
setup_entry(m, driver_handle, driver_data) ==
    LET i == find_compatible_driver(m.drivers, driver_data)
    IN IF i = -1 THEN [res |-> None, m |-> [m EXCEPT !.raised = TRUE]]
       ELSE IF i > 0
       THEN LET m1 == [m EXCEPT !.drivers[i] = add_handle(@, driver_handle),
                                !.status_updates = Put(@, driver_handle, m.drivers[i].status)]
            IN [res |-> "SUCCESS",
                m |-> RegisterVariables(Log(m1, "info", "using compatible driver"),
                                        i, driver_handle, driver_data)]
       ELSE LET s == start_driver(m, driver_handle, driver_data)
            IN IF s.ok
               THEN LET m1 == [s.m EXCEPT !.drivers = Append(@, s.new_driver)]
                    IN [res |-> "SUCCESS",
                        m |-> RegisterVariables(Log(m1, "info", "new driver started"),
                                                Len(m1.drivers), driver_handle, driver_data)]
               ELSE [res |-> "FAILED", m |-> s.m]

\* setup_drivers over the entries of drivers_setup_data, in the host's order
RECURSIVE setup_from(_, _, _, _)
setup_from(m, res, data, k) ==
    IF k > Len(data) \/ m.raised THEN [res |-> res, m |-> m]
    ELSE LET e == setup_entry(m, data[k].handle, data[k].data)
         IN setup_from(e.m, IF e.m.raised THEN res ELSE Put(res, data[k].handle, e.res),
                       data, k + 1)

setup_drivers(m, drivers_setup_data) == setup_from(m, EmptyDict, drivers_setup_data, 1)

-----------------------------------------------------------------------------
(* send_command, UPDATES branch *)

\* The index in the registry of the driver named n, 0 when there is none
RECURSIVE index_from(_, _, _)
index_from(ds, n, i) ==
    IF i > Len(ds) THEN 0 ELSE IF ds[i].name = n THEN i ELSE index_from(ds, n, i + 1)

IndexOf(ds, n) == index_from(ds, n, 1)

\* update_entry without the comparison with the variable's value
update_entry_no_compare(m, var_handle, var_value) ==
    IF var_handle \in DOMAIN m.handles
    THEN LET var_id == m.handles[var_handle][1]
             i == IndexOf(m.drivers, m.handles[var_handle][2])
         IN IF i = 0 THEN [m EXCEPT !.raised = TRUE]
            ELSE IF m.drivers[i].status = RUNNING
            THEN [m EXCEPT !.drivers[i].updates = Put(@, var_id, var_value),
                           !.drivers[i].variables[var_id].write_count = @ + 1,
                           !.drivers[i].variables[var_id].value = var_value]
            ELSE m
    ELSE Log(m, "error", "variable handle not found")

\* update_entry without the test of the driver's status
update_entry_any_status(m, var_handle, var_value) ==
    IF var_handle \in DOMAIN m.handles
    THEN LET var_id == m.handles[var_handle][1]
             i == IndexOf(m.drivers, m.handles[var_handle][2])
         IN IF i = 0 THEN [m EXCEPT !.raised = TRUE]
            ELSE IF m.drivers[i].variables[var_id].value # var_value
            THEN [m EXCEPT !.drivers[i].updates = Put(@, var_id, var_value),
                           !.drivers[i].variables[var_id].write_count = @ + 1,
                           !.drivers[i].variables[var_id].value = var_value]
            ELSE m
    ELSE Log(m, "error", "variable handle not found")

\* update_entry giving the whole batch up at a handle it does not know
update_entry_unknown_aborts(m, var_handle, var_value) ==
    IF var_handle \in DOMAIN m.handles
    THEN LET var_id == m.handles[var_handle][1]
             i == IndexOf(m.drivers, m.handles[var_handle][2])
         IN IF i = 0 THEN [m EXCEPT !.raised = TRUE]
            ELSE IF m.drivers[i].status = RUNNING
                    /\ m.drivers[i].variables[var_id].value # var_value
            THEN [m EXCEPT !.drivers[i].updates = Put(@, var_id, var_value),
                           !.drivers[i].variables[var_id].write_count = @ + 1,
                           !.drivers[i].variables[var_id].value = var_value]
            ELSE m
    ELSE [Log(m, "error", "variable handle not found") EXCEPT !.raised = TRUE]

\* update_entry putting a driver that is not running into ERROR
update_entry_marks_error(m, var_handle, var_value) ==
    IF var_handle \in DOMAIN m.handles
    THEN LET var_id == m.handles[var_handle][1]
             i == IndexOf(m.drivers, m.handles[var_handle][2])
         IN IF i = 0 THEN [m EXCEPT !.raised = TRUE]
            ELSE IF m.drivers[i].status # RUNNING
            THEN [m EXCEPT !.drivers[i].status = ERROR]
            ELSE IF m.drivers[i].variables[var_id].value # var_value
            THEN [m EXCEPT !.drivers[i].updates = Put(@, var_id, var_value),
                           !.drivers[i].variables[var_id].write_count = @ + 1,
                           !.drivers[i].variables[var_id].value = var_value]
            ELSE m
    ELSE Log(m, "error", "variable handle not found")

\* update_entry forwarding an accepted write without storing its value
update_entry_value_not_stored(m, var_handle, var_value) ==
    IF var_handle \in DOMAIN m.handles
    THEN LET var_id == m.handles[var_handle][1]
             i == IndexOf(m.drivers, m.handles[var_handle][2])
         IN IF i = 0 THEN [m EXCEPT !.raised = TRUE]
            ELSE IF m.drivers[i].status = RUNNING
                    /\ m.drivers[i].variables[var_id].value # var_value
            THEN [m EXCEPT !.drivers[i].updates = Put(@, var_id, var_value),
                           !.drivers[i].variables[var_id].write_count = @ + 1]
            ELSE m
    ELSE Log(m, "error", "variable handle not found")

\* One (var_handle, var_value) entry of the UPDATES payload
update_entry(m, var_handle, var_value) ==
    IF var_handle \in DOMAIN m.handles
    THEN LET var_id == m.handles[var_handle][1]
             i == IndexOf(m.drivers, m.handles[var_handle][2])
         IN IF i = 0 THEN [m EXCEPT !.raised = TRUE]     \* self._drivers[driver_name]: KeyError
            ELSE IF m.drivers[i].status = RUNNING
                    /\ m.drivers[i].variables[var_id].value # var_value
            THEN [m EXCEPT !.drivers[i].updates = Put(@, var_id, var_value),
                           !.drivers[i].variables[var_id].write_count = @ + 1,
                           !.drivers[i].variables[var_id].value = var_value]
            ELSE m
    ELSE Log(m, "error", "variable handle not found")

RECURSIVE updates_from(_, _, _)
updates_from(m, data, k) ==
    IF k > Len(data) \/ m.raised THEN m
    ELSE updates_from(update_entry(m, data[k].handle, data[k].value), data, k + 1)

\* The loop that sends each driver its pending updates and clears them
RECURSIVE flush_from(_, _)
flush_from(m, i) ==
    IF i > Len(m.drivers) THEN m
    ELSE IF Truthy(m.drivers[i].updates)
    THEN flush_from([m EXCEPT !.sent = Append(@, [cmd |-> "UPDATE", data |-> m.drivers[i].updates,
                                                  to |-> m.drivers[i].name]),
                              !.drivers[i].updates = EmptyDict], i + 1)
    ELSE flush_from(m, i + 1)

host_updates(m, data) ==
    LET m1 == updates_from(m, data, 1)
    IN IF m1.raised THEN m1 ELSE flush_from(m1, 1)

-----------------------------------------------------------------------------
(* clean_drivers, first loop: EXIT on every driver's channel *)

RECURSIVE exit_from(_, _)
exit_from(m, i) ==
    IF i > Len(m.drivers) THEN m
    ELSE LET n == m.drivers[i].name
             m1 == Log(m, "info", "exit command sent")
         IN exit_from([m1 EXCEPT !.sent = Append(@, [cmd |-> "EXIT", data |-> None, to |-> n]),
                                 !.procs[n] = IF @ = "started" THEN "exiting" ELSE @],
                      i + 1)

send_exits(m) == exit_from(m, 1)

-----------------------------------------------------------------------------
(* run_once: the reconciler *)

max_pipe_loops == 10

InfoLogCap == 5

\* PutAll writing under one of the keys only
PutAll_one_key(d, keys, v) ==
    [z \in (DOMAIN d) \cup keys |->
        IF z \in keys /\ (z \in DOMAIN d => z = CHOOSE k \in keys : TRUE) THEN v
        ELSE IF z \in DOMAIN d THEN d[z] ELSE v]

PutAll(d, keys, v) == [z \in (DOMAIN d) \cup keys |-> IF z \in keys THEN v ELSE d[z]]

\* The first n elements of s instead of the last
FirstN(s, n) == IF Len(s) > n THEN SubSeq(s, 1, n) ELSE s

\* info_log[-5:]
LastN(s, n) == IF Len(s) > n THEN SubSeq(s, Len(s) - n + 1, Len(s)) ELSE s

\* "Latency" in data, a text being the sequence of its words
HasLatency(text) == "Latency" \in Range(text)

\* The part of the manager's state run_once works on
Rec == [drivers |-> drivers, status_updates |-> status_updates,
        info_updates |-> info_updates, var_info_updates |-> var_info_updates,
        value_updates |-> value_updates, logs |-> <<>>]

\* The UPDATE branch without the comparison with the stored value
RECURSIVE worker_update_always(_, _, _, _)
worker_update_always(r, i, data, k) ==
    IF k > Len(data) THEN r
    ELSE LET var_id == data[k].id
             value == data[k].value
         IN IF var_id \in DOMAIN r.drivers[i].variables
            THEN worker_update_always(
                     [r EXCEPT !.drivers[i].variables[var_id].value = value,
                               !.drivers[i].variables[var_id].read_count = @ + 1,
                               !.value_updates =
                                   PutAll(@, Range(r.drivers[i].variables[var_id].handlers), value)],
                     i, data, k + 1)
            ELSE worker_update_always(r, i, data, k + 1)

\* The UPDATE branch, one (var_id, value) entry at a time
RECURSIVE worker_update_from(_, _, _, _)
worker_update_from(r, i, data, k) ==
    IF k > Len(data) THEN r
    ELSE LET var_id == data[k].id
             value == data[k].value
         IN IF var_id \in DOMAIN r.drivers[i].variables
               /\ r.drivers[i].variables[var_id].value # value
            THEN worker_update_from(
                     [r EXCEPT !.drivers[i].variables[var_id].value = value,
                               !.drivers[i].variables[var_id].read_count = @ + 1,
                               !.value_updates =
                                   PutAll(@, Range(r.drivers[i].variables[var_id].handlers), value)],
                     i, data, k + 1)
            ELSE worker_update_from(r, i, data, k + 1)

\* apply_message putting a latency report in the info log as well
apply_message_latency_logged(r, i, msg) ==
    LET d == r.drivers[i]
    IN CASE msg.cmd = "STATUS" ->
              IF d.status # msg.data
              THEN [r EXCEPT !.drivers[i].status = msg.data,
                             !.status_updates = PutAll(@, Range(d.handlers), msg.data)]
              ELSE r
         [] msg.cmd = "INFO" ->
              IF HasLatency(msg.data)
              THEN [r EXCEPT !.drivers[i].latency = msg.data,
                             !.drivers[i].info_log = LastN(Append(@, msg.data), InfoLogCap)]
              ELSE [r EXCEPT !.drivers[i].info_log = LastN(Append(@, msg.data), InfoLogCap),
                             !.drivers[i].info = msg.data,
                             !.info_updates = PutAll(@, Range(d.handlers), msg.data)]
         [] msg.cmd = "VAR_INFO" ->
              IF msg.data.var_id \in DOMAIN d.variables
                 /\ d.variables[msg.data.var_id].info # msg.data.msg
              THEN [r EXCEPT !.drivers[i].variables[msg.data.var_id].info = msg.data.msg,
                             !.var_info_updates =
                                 PutAll(@, Range(d.variables[msg.data.var_id].handlers),
                                        msg.data.msg)]
              ELSE r
         [] msg.cmd = "UPDATE" -> worker_update_from(r, i, msg.data, 1)
         [] OTHER -> [r EXCEPT !.logs = Append(@, <<"error", "message received">>)]

\* One (command, data) message received from the worker of the driver at index i
apply_message(r, i, msg) ==
    LET d == r.drivers[i]
    IN CASE msg.cmd = "STATUS" ->
              IF d.status # msg.data
              THEN [r EXCEPT !.drivers[i].status = msg.data,
                             !.status_updates = PutAll(@, Range(d.handlers), msg.data)]
              ELSE r
         [] msg.cmd = "INFO" ->
              IF HasLatency(msg.data)
              THEN [r EXCEPT !.drivers[i].latency = msg.data]
              ELSE [r EXCEPT !.drivers[i].info_log = LastN(Append(@, msg.data), InfoLogCap),
                             !.drivers[i].info = msg.data,
                             !.info_updates = PutAll(@, Range(d.handlers), msg.data)]
         [] msg.cmd = "VAR_INFO" ->
              IF msg.data.var_id \in DOMAIN d.variables
                 /\ d.variables[msg.data.var_id].info # msg.data.msg
              THEN [r EXCEPT !.drivers[i].variables[msg.data.var_id].info = msg.data.msg,
                             !.var_info_updates =
                                 PutAll(@, Range(d.variables[msg.data.var_id].handlers),
                                        msg.data.msg)]
              ELSE r
         [] msg.cmd = "UPDATE" -> worker_update_from(r, i, msg.data, 1)
         [] OTHER -> [r EXCEPT !.logs = Append(@, <<"error", "message received">>)]

\* drain_pipe discarding what is still queued when the cap is reached
RECURSIVE drain_pipe_drops_rest(_, _, _)
drain_pipe_drops_rest(r, i, n) ==
    IF r.drivers[i].pipe = <<>> THEN r
    ELSE IF n >= max_pipe_loops THEN [r EXCEPT !.drivers[i].pipe = <<>>]
    ELSE LET msg == Head(r.drivers[i].pipe)
             r1 == [r EXCEPT !.drivers[i].pipe = Tail(@)]
         IN drain_pipe_drops_rest(apply_message(r1, i, msg), i, n + 1)

\* drain_pipe testing the counter before it is incremented, one message late
RECURSIVE drain_pipe_one_more(_, _, _)
drain_pipe_one_more(r, i, n) ==
    IF r.drivers[i].pipe = <<>> \/ n > max_pipe_loops THEN r
    ELSE LET msg == Head(r.drivers[i].pipe)
             r1 == [r EXCEPT !.drivers[i].pipe = Tail(@)]
         IN drain_pipe_one_more(apply_message(r1, i, msg), i, n + 1)

\* while driver_struct.pipe.poll(): ... counter += 1; if counter >= max_pipe_loops: break
RECURSIVE drain_pipe(_, _, _)
drain_pipe(r, i, n) ==
    IF r.drivers[i].pipe = <<>> \/ n >= max_pipe_loops THEN r
    ELSE LET msg == Head(r.drivers[i].pipe)
             r1 == [r EXCEPT !.drivers[i].pipe = Tail(@)]
         IN drain_pipe(apply_message(r1, i, msg), i, n + 1)

\* for driver_struct in self._drivers.values(): ...
RECURSIVE poll_from(_, _)
poll_from(r, i) ==
    IF i > Len(r.drivers) THEN r ELSE poll_from(drain_pipe(r, i, 0), i + 1)

poll_drivers(r) == poll_from(r, 1)

\* The once-a-second statistics at the end of run_once
stats_due == now - last_status_record >= 1

new_stats == [z \in {"DRIVER_COUNT", "VARIABLE_COUNT"} |->
                 IF z = "DRIVER_COUNT" THEN Len(drivers) ELSE Cardinality(DOMAIN handles)]

\* run_once's return value, as the truth value run_forever tests
run_once_result(r) ==
    Truthy(r.status_updates) \/ Truthy(r.info_updates)
        \/ Truthy(r.var_info_updates) \/ Truthy(r.value_updates)

update_frames(r, stats) ==
    (IF Truthy(r.status_updates) THEN <<Frame("STATUS", r.status_updates)>> ELSE <<>>)
    \o (IF Truthy(r.info_updates) THEN <<Frame("INFO", r.info_updates)>> ELSE <<>>)
    \o (IF Truthy(r.var_info_updates) THEN <<Frame("VAR_INFO", r.var_info_updates)>> ELSE <<>>)
    \o (IF Truthy(r.value_updates) THEN <<Frame("UPDATES", r.value_updates)>> ELSE <<>>)
    \o (IF Truthy(stats) THEN <<Frame("STATS", stats)>> ELSE <<>>)

-----------------------------------------------------------------------------
(* run_forever and send_command: the manager's steps *)

HostFrameCap == 10

mgrVars == <<drivers, driver_counter, handles, status_updates, procs, attach, sent, logs>>

\* The manager's state becomes m
Commit(m) ==
    /\ drivers' = m.drivers
    /\ driver_counter' = m.driver_counter
    /\ handles' = m.handles
    /\ status_updates' = m.status_updates
    /\ procs' = m.procs
    /\ attach' = m.attach
    /\ sent' = m.sent
    /\ logs' = m.logs

\* counter += 1; if counter >= 10: break
Handled ==
    /\ counter' = counter + 1
    /\ pc' = IF counter + 1 >= HostFrameCap THEN "run_once" ELSE "poll"

\* An exception leaves run_forever
Raised ==
    /\ pc' = "crashed"
    /\ counter' = counter

Receiving(cmd) ==
    /\ pc = "poll"
    /\ hostIn # <<>>
    /\ Head(hostIn).cmd = cmd
    /\ hostIn' = Tail(hostIn)
    /\ handled' = <<Head(hostIn)>>

\* The <<handle, driver name>> pairs by which the registry new exceeds old,
\* the first handle of a new record left out: the handles attached by reuse
Reused(old, new) ==
    UNION {{<<new[i].handlers[p], new[i].name>> :
               p \in ((IF i <= Len(old) THEN Len(old[i].handlers) ELSE 1) + 1)
                         ..Len(new[i].handlers)} : i \in 1..Len(new)}

\* SETUP_DRIVERS: setup_drivers, then the reply
DispatchSetup ==
    /\ Receiving("SETUP_DRIVERS")
    /\ LET r == setup_drivers(Log(Mgr, "info", "setup drivers request received"),
                              Head(hostIn).data)
       IN /\ Commit(r.m)
          /\ IF r.m.raised
             THEN hostOut' = <<>> /\ Raised
             ELSE hostOut' = <<Frame("SETUP_DRIVERS", r.res)>> /\ Handled
          /\ marks' = marks \cup Reused(drivers, r.m.drivers)
    /\ UNCHANGED <<running, info_updates, var_info_updates, value_updates, stats_updates,
                   last_status_record, now, joined, wvalues, hvalues, used, stats_sent,
                   fvalues, infos>>

\* The value last forwarded of each variable, after the UPDATE messages among msgs
RECURSIVE Forwarded(_, _)
Forwarded(fv, msgs) ==
    IF msgs = <<>> THEN fv
    ELSE LET msg == Head(msgs)
         IN IF msg.cmd = "UPDATE"
            THEN Forwarded([key \in (DOMAIN fv) \cup {<<msg.to, v>> : v \in DOMAIN msg.data} |->
                               IF key[1] = msg.to /\ key[2] \in DOMAIN msg.data
                               THEN msg.data[key[2]] ELSE fv[key]],
                           Tail(msgs))
            ELSE Forwarded(fv, Tail(msgs))

\* UPDATES: no reply
DispatchUpdates ==
    /\ Receiving("UPDATES")
    /\ LET m == host_updates(Mgr, Head(hostIn).data)
       IN /\ Commit(m)
          /\ IF m.raised THEN Raised ELSE Handled
          /\ fvalues' = Forwarded(fvalues, m.sent)
    /\ hostOut' = <<>>
    /\ UNCHANGED <<running, info_updates, var_info_updates, value_updates, stats_updates,
                   last_status_record, now, joined, wvalues, hvalues, used, stats_sent,
                   infos, marks>>

\* An unknown command answered with a frame of its tag
DispatchOther_replies ==
    /\ pc = "poll"
    /\ hostIn # <<>>
    /\ Head(hostIn).cmd \notin {"CLEAN", "SETUP_DRIVERS", "UPDATES"}
    /\ hostIn' = Tail(hostIn)
    /\ handled' = <<Head(hostIn)>>
    /\ logs' = <<<<"error", "command not implemented">>>>
    /\ hostOut' = <<Frame(Head(hostIn).cmd, None)>>
    /\ sent' = <<>>
    /\ Handled
    /\ UNCHANGED <<drivers, driver_counter, handles, status_updates, procs, attach,
                   running, info_updates, var_info_updates, value_updates, stats_updates,
                   last_status_record, now, joined, wvalues, hvalues, used, stats_sent, fvalues, infos, marks>>

\* A command that is none of CLEAN, SETUP_DRIVERS, UPDATES: logged, no reply
DispatchOther ==
    /\ pc = "poll"
    /\ hostIn # <<>>
    /\ Head(hostIn).cmd \notin {"CLEAN", "SETUP_DRIVERS", "UPDATES"}
    /\ hostIn' = Tail(hostIn)
    /\ handled' = <<Head(hostIn)>>
    /\ logs' = <<<<"error", "command not implemented">>>>
    /\ hostOut' = <<>>
    /\ sent' = <<>>
    /\ Handled
    /\ UNCHANGED <<drivers, driver_counter, handles, status_updates, procs, attach,
                   running, info_updates, var_info_updates, value_updates, stats_updates,
                   last_status_record, now, joined, wvalues, hvalues, used, stats_sent, fvalues, infos, marks>>

\* CLEAN answered without waiting for the joins
DispatchClean_no_join ==
    /\ Receiving("CLEAN")
    /\ Commit(send_exits(Log(Mgr, "info", "clean request received")))
    /\ hostOut' = <<>>
    /\ pc' = "reply"
    /\ UNCHANGED <<counter, running, info_updates, var_info_updates, value_updates,
                   stats_updates, last_status_record, now, joined, wvalues, hvalues, used,
                   stats_sent, fvalues, infos, marks>>

\* CLEAN: clean_drivers sends EXIT on every channel, then joins
DispatchClean ==
    /\ Receiving("CLEAN")
    /\ Commit(send_exits(Log(Mgr, "info", "clean request received")))
    /\ hostOut' = <<>>
    /\ pc' = "joining"
    /\ UNCHANGED <<counter, running, info_updates, var_info_updates, value_updates,
                   stats_updates, last_status_record, now, joined, wvalues, hvalues, used, stats_sent, fvalues, infos, marks>>

\* clean_drivers, second loop: popitem() takes the last driver and join() returns
\* once its worker task has ended
JoinWorker ==
    /\ pc = "joining"
    /\ drivers # <<>>
    /\ procs[drivers[Len(drivers)].name] = "exited"
    /\ drivers' = SubSeq(drivers, 1, Len(drivers) - 1)
    /\ joined' = joined \cup {drivers[Len(drivers)].name}
    /\ logs' = <<<<"info", "driver closed">>>>
    /\ hostOut' = <<>>
    /\ sent' = <<>>
    /\ UNCHANGED <<driver_counter, handles, status_updates, procs, attach, pc, counter,
                   hostIn, running, info_updates, var_info_updates, value_updates,
                   stats_updates, last_status_record, now, wvalues, hvalues, used, handled, stats_sent, fvalues, infos, marks>>

\* clean_drivers returning without the running flag being cleared
CleanReturn_keeps_running ==
    /\ pc = "joining"
    /\ drivers = <<>>
    /\ running' = running
    /\ pc' = "reply"
    /\ logs' = <<>>
    /\ hostOut' = <<>>
    /\ sent' = <<>>
    /\ UNCHANGED <<drivers, driver_counter, handles, status_updates, procs, attach, counter,
                   hostIn, joined, info_updates, var_info_updates, value_updates,
                   stats_updates, last_status_record, now, wvalues, hvalues, used, handled, stats_sent, fvalues, infos, marks>>

\* clean_drivers has returned: self._running = False
CleanReturn ==
    /\ pc = "joining"
    /\ drivers = <<>>
    /\ running' = FALSE
    /\ pc' = "reply"
    /\ logs' = <<>>
    /\ hostOut' = <<>>
    /\ sent' = <<>>
    /\ UNCHANGED <<drivers, driver_counter, handles, status_updates, procs, attach, counter,
                   hostIn, joined, info_updates, var_info_updates, value_updates,
                   stats_updates, last_status_record, now, wvalues, hvalues, used, handled, stats_sent, fvalues, infos, marks>>

\* send_command returned "SUCCESS": pipe.send((command, res_data))
ReplyClean ==
    /\ pc = "reply"
    /\ hostOut' = <<Frame("CLEAN", "SUCCESS")>>
    /\ logs' = <<>>
    /\ sent' = <<>>
    /\ Handled
    /\ UNCHANGED <<drivers, driver_counter, handles, status_updates, procs, attach,
                   hostIn, running, joined, info_updates, var_info_updates, value_updates,
                   stats_updates, last_status_record, now, wvalues, hvalues, used, handled, stats_sent, fvalues, infos, marks>>

\* pipe.poll() is false: the drain of the host channel ends
PollEmpty ==
    /\ pc = "poll"
    /\ hostIn = <<>>
    /\ pc' = "run_once"
    /\ UNCHANGED <<drivers, driver_counter, handles, status_updates, procs, attach, sent,
                   logs, counter, hostIn, hostOut, running, joined, info_updates,
                   var_info_updates, value_updates, stats_updates, last_status_record, now,
                   wvalues, hvalues, used, handled, stats_sent, fvalues, infos, marks>>

\* The values an UPDATES frame adds to what the host has seen of each handle
Observe(hv, value_upd) ==
    [h \in (DOMAIN hv) \cup (DOMAIN value_upd) |->
        IF h \in DOMAIN value_upd
        THEN Append(IF h \in DOMAIN hv THEN hv[h] ELSE <<>>, value_upd[h])
        ELSE hv[h]]

\* The non-latency INFO texts among the messages msgs
RECURSIVE InfoTexts(_)
InfoTexts(msgs) ==
    IF msgs = <<>> THEN <<>>
    ELSE (IF Head(msgs).cmd = "INFO" /\ ~HasLatency(Head(msgs).data)
          THEN <<Head(msgs).data>> ELSE <<>>) \o InfoTexts(Tail(msgs))

\* The INFO texts received from each driver, after a pass over the channels of ds
Received(inf, ds) ==
    LET names == {ds[i].name : i \in 1..Len(ds)}
        taken(n) == LET q == ds[IndexOf(ds, n)].pipe
                    IN InfoTexts(SubSeq(q, 1, IF Len(q) > max_pipe_loops
                                              THEN max_pipe_loops ELSE Len(q)))
    IN [n \in (DOMAIN inf) \cup {z \in names : taken(z) # <<>>} |->
           (IF n \in DOMAIN inf THEN inf[n] ELSE <<>>) \o (IF n \in names THEN taken(n) ELSE <<>>)]

\* if self._running: run_once(); when it returned true, send every non-empty
\* map and clear it
Cycle ==
    /\ pc = "run_once"
    /\ running
    /\ LET r == poll_drivers(Rec)
           stats == IF stats_due THEN new_stats ELSE stats_updates
       IN /\ drivers' = r.drivers
          /\ logs' = r.logs
          /\ last_status_record' = IF stats_due THEN now ELSE last_status_record
          /\ IF run_once_result(r)
             THEN /\ hostOut' = update_frames(r, stats)
                  /\ status_updates' = EmptyDict
                  /\ info_updates' = EmptyDict
                  /\ var_info_updates' = EmptyDict
                  /\ value_updates' = EmptyDict
                  /\ stats_updates' = EmptyDict
                  /\ hvalues' = Observe(hvalues, r.value_updates)
                  /\ stats_sent' = IF Truthy(stats) THEN stats_sent + 1 ELSE stats_sent
             ELSE /\ hostOut' = <<>>
                  /\ status_updates' = r.status_updates
                  /\ info_updates' = r.info_updates
                  /\ var_info_updates' = r.var_info_updates
                  /\ value_updates' = r.value_updates
                  /\ stats_updates' = stats
                  /\ hvalues' = hvalues
                  /\ stats_sent' = stats_sent
    /\ sent' = <<>>
    /\ handled' = <<>>
    /\ pc' = "poll"
    /\ counter' = 0
    /\ infos' = Received(infos, drivers)
    /\ marks' = IF \E k \in 1..Len(hostOut') : hostOut'[k].cmd = "STATUS" THEN {} ELSE marks
    /\ UNCHANGED <<driver_counter, handles, procs, attach, hostIn, running, joined, now,
                   wvalues, used, fvalues>>

\* while self._running: ends the loop once the flag is cleared
Close ==
    /\ pc = "run_once"
    /\ ~running
    /\ pc' = "closed"
    /\ handled' = <<>>
    /\ logs' = <<<<"info", "closed">>>>
    /\ hostOut' = <<>>
    /\ sent' = <<>>
    /\ UNCHANGED <<drivers, driver_counter, handles, status_updates, procs, attach, counter,
                   hostIn, running, joined, info_updates, var_info_updates, value_updates,
                   stats_updates, last_status_record, now, wvalues, hvalues, used, stats_sent, fvalues, infos, marks>>

-----------------------------------------------------------------------------
(* The environment: the host, the workers, the clock *)

MaxHostQueue == 2

MaxPipe == 2

Entry(handle, class_name, parameters, variables) ==
    [data |-> [parameters |-> parameters, variables |-> variables, DRIVER |-> class_name],
     handle |-> handle]

Var(var_id, var_handle) == [data |-> [handle |-> var_handle], id |-> var_id]

Write(var_handle, value) == [handle |-> var_handle, value |-> value]

Reading(var_id, value) == [value |-> value, id |-> var_id]

PartialMaps(K, V) == UNION {[S -> V] : S \in SUBSET K}

\* The commands of one or two entries over a set of entries; a payload is a
\* dict, so the handles of one command are distinct
CommandsOver(Entries) ==
    {<<e>> : e \in Entries}
        \cup {c \in {<<e1, e2>> : e1 \in Entries, e2 \in Entries} : c[1].handle # c[2].handle}

HostCanSend == pc \notin {"closed", "crashed"} /\ Len(hostIn) < MaxHostQueue

\* The host sends SETUP_DRIVERS with one of Commands, at most limit entries in all
HostSetup(Commands, limit) ==
    \E data \in Commands :
        /\ HostCanSend
        /\ used.setup + Len(data) <= limit
        /\ hostIn' = Append(hostIn, Frame("SETUP_DRIVERS", data))
        /\ used' = [used EXCEPT !.setup = @ + Len(data)]
        /\ UNCHANGED <<drivers, driver_counter, handles, running, status_updates,
                       info_updates, var_info_updates, value_updates, stats_updates,
                       last_status_record, logs, now, pc, counter, hostOut, sent, procs,
                       joined, attach, wvalues, hvalues, handled, stats_sent, fvalues, infos, marks>>

\* The host sends UPDATES with one of Batches, at most limit frames in all
HostUpdates(Batches, limit) ==
    \E data \in Batches :
        /\ HostCanSend
        /\ used.writes < limit
        /\ hostIn' = Append(hostIn, Frame("UPDATES", data))
        /\ used' = [used EXCEPT !.writes = @ + 1]
        /\ UNCHANGED <<drivers, driver_counter, handles, running, status_updates,
                       info_updates, var_info_updates, value_updates, stats_updates,
                       last_status_record, logs, now, pc, counter, hostOut, sent, procs,
                       joined, attach, wvalues, hvalues, handled, stats_sent, fvalues, infos, marks>>

\* The host sends CLEAN, or a command the manager does not know
HostCommand(cmd, limit) ==
    /\ HostCanSend
    /\ used.others < limit
    /\ hostIn' = Append(hostIn, Frame(cmd, None))
    /\ used' = [used EXCEPT !.others = @ + 1]
    /\ UNCHANGED <<drivers, driver_counter, handles, running, status_updates,
                   info_updates, var_info_updates, value_updates, stats_updates,
                   last_status_record, logs, now, pc, counter, hostOut, sent, procs,
                   joined, attach, wvalues, hvalues, handled, stats_sent, fvalues, infos, marks>>

\* What the worker of driver n has sent of each variable, after one more
\* UPDATE message
Emitted(wv, n, data) ==
    LET keys == {<<n, data[k].id>> : k \in DOMAIN data}
        value(key) == data[CHOOSE k \in DOMAIN data : data[k].id = key[2]].value
    IN [key \in (DOMAIN wv) \cup keys |->
           IF key \in keys
           THEN Append(IF key \in DOMAIN wv THEN wv[key] ELSE <<>>, value(key))
           ELSE wv[key]]

\* The worker of a live driver puts one of Messages on its channel, at most
\* limit messages in all
WorkerSend(Messages, limit) ==
    \E i \in 1..Len(drivers), msg \in Messages :
        /\ procs[drivers[i].name] = "started"
        /\ Len(drivers[i].pipe) < MaxPipe
        /\ used.worker < limit
        /\ drivers' = [drivers EXCEPT ![i].pipe = Append(@, msg)]
        /\ used' = [used EXCEPT !.worker = @ + 1]
        /\ wvalues' = IF msg.cmd = "UPDATE"
                      THEN Emitted(wvalues, drivers[i].name, msg.data)
                      ELSE wvalues
        /\ UNCHANGED <<driver_counter, handles, running, status_updates, info_updates,
                       var_info_updates, value_updates, stats_updates, last_status_record,
                       logs, now, pc, counter, hostIn, hostOut, sent, procs, joined, attach,
                       hvalues, handled, stats_sent, fvalues, infos, marks>>

\* A worker that has received EXIT ends
WorkerExit ==
    \E n \in DOMAIN procs :
        /\ procs[n] = "exiting"
        /\ procs' = [procs EXCEPT ![n] = "exited"]
        /\ UNCHANGED <<drivers, driver_counter, handles, running, status_updates,
                       info_updates, var_info_updates, value_updates, stats_updates,
                       last_status_record, logs, now, pc, counter, hostIn, hostOut, sent,
                       joined, attach, wvalues, hvalues, used, handled, stats_sent, fvalues, infos, marks>>

\* DriverManager.__init__, with the host channel holding the frames in queue
InitWith(queue) ==
    /\ drivers = <<>>
    /\ driver_counter = 0
    /\ handles = EmptyDict
    /\ running = TRUE
    /\ status_updates = EmptyDict
    /\ info_updates = EmptyDict
    /\ var_info_updates = EmptyDict
    /\ value_updates = EmptyDict
    /\ stats_updates = EmptyDict
    /\ last_status_record = 0
    /\ logs = <<<<"info", "started">>, <<"info", "status file path not defined">>>>
    /\ now = 0
    /\ pc = "poll"
    /\ counter = 0
    /\ hostIn = queue
    /\ hostOut = <<>>
    /\ sent = <<>>
    /\ procs = EmptyDict
    /\ joined = {}
    /\ attach = {}
    /\ wvalues = EmptyDict
    /\ hvalues = EmptyDict
    /\ used = [setup |-> 0, writes |-> 0, others |-> 0, worker |-> 0]
    /\ handled = <<>>
    /\ stats_sent = 0
    /\ fvalues = EmptyDict
    /\ infos = EmptyDict
    /\ marks = {}

Init == InitWith(<<>>)

-----------------------------------------------------------------------------
(* Writing: two drivers are set up, their workers report statuses, the host
   writes to their variables *)

MaxWrites == 2

MaxWriteStatus == 2

TwoDrivers ==
    <<Entry("h1", "udp_driver", Params([z \in {"ip"} |-> "a"]), <<Var("x", "vh1")>>),
      Entry("h2", "udp_driver", Params([z \in {"ip"} |-> "b"]), <<Var("x", "vh2")>>)>>

WriteBatches ==
    {<<Write(h, v)>> : h \in {"vh1", "vh2"}, v \in {"1", "2"}}
        \cup {<<Write("vh1", "1"), Write("vh2", "1")>>, <<Write("vh9", "1")>>}

WriteHostUpdates == HostUpdates(WriteBatches, MaxWrites)

WriteWorkerStatus ==
    WorkerSend({[cmd |-> "STATUS", data |-> st] : st \in {RUNNING, ERROR}}, MaxWriteStatus)

InitWrite == InitWith(<<Frame("SETUP_DRIVERS", TwoDrivers)>>)

NextWrite ==
    \/ WriteHostUpdates \/ WriteWorkerStatus
    \/ DispatchSetup \/ DispatchUpdates \/ PollEmpty \/ Cycle

SpecWrite == InitWrite /\ [][NextWrite]_vars

-----------------------------------------------------------------------------
(* Unknown handles: the host writes in batches that name variable handles
   nobody registered, alone or among handles of the two drivers *)

DropBatches ==
    {<<Write("vh9", "1")>>,
     <<Write("vh1", "1")>>,
     <<Write("vh9", "1"), Write("vh1", "2")>>,
     <<Write("vh1", "1"), Write("vh9", "2"), Write("vh2", "2")>>,
     <<Write("vh2", "1"), Write("vh8", "1"), Write("vh9", "1")>>}

DropHostUpdates == HostUpdates(DropBatches, MaxWrites)

NextDrop ==
    \/ DropHostUpdates \/ WriteWorkerStatus
    \/ DispatchSetup \/ DispatchUpdates \/ PollEmpty \/ Cycle

SpecDrop == InitWrite /\ [][NextDrop]_vars

-----------------------------------------------------------------------------
(* Reading: one driver with two variables, whose worker reports values *)

MaxWorkerUpdates == 3

\* The variables x and y, under a handle each or under one handle for both
FlowSetups ==
    {<<Entry("h1", "udp_driver", Params([z \in {"ip"} |-> "a"]),
             <<Var("x", "vh1"), Var("y", vh)>>)>> : vh \in {"vh1", "vh2"}}

FlowMessages ==
    {[cmd |-> "UPDATE", data |-> <<Reading(var_id, v)>>] : var_id \in {"x", "y"}, v \in {"1", "2"}}
        \cup {[cmd |-> "UPDATE", data |-> <<Reading("x", "1"), Reading("y", "2")>>]}

WorkerUpdate == WorkerSend(FlowMessages, MaxWorkerUpdates)

InitFlow == \E data \in FlowSetups : InitWith(<<Frame("SETUP_DRIVERS", data)>>)

NextFlow == WorkerUpdate \/ DispatchSetup \/ PollEmpty \/ Cycle

SpecFlow == InitFlow /\ [][NextFlow]_vars

-----------------------------------------------------------------------------
(* Uptime: the clock advances while one driver reports its status *)

MaxSeconds == 3

MaxTimeStatus == 2

\* One second passes; the loop has completed a cycle within the last second
Tick ==
    /\ now < MaxSeconds
    /\ now = last_status_record
    /\ pc \notin {"closed", "crashed"}
    /\ now' = now + 1
    /\ UNCHANGED <<drivers, driver_counter, handles, running, status_updates,
                   info_updates, var_info_updates, value_updates, stats_updates,
                   last_status_record, logs, pc, counter, hostIn, hostOut, sent, procs,
                   joined, attach, wvalues, hvalues, used, handled, stats_sent, fvalues, infos, marks>>

TimeWorkerStatus ==
    WorkerSend({[cmd |-> "STATUS", data |-> st] : st \in {RUNNING, ERROR}}, MaxTimeStatus)

InitTime ==
    InitWith(<<Frame("SETUP_DRIVERS", <<Entry("h1", "udp_driver",
                                              Params([z \in {"ip"} |-> "a"]),
                                              <<Var("x", "vh1")>>)>>)>>)

NextTime == Tick \/ TimeWorkerStatus \/ DispatchSetup \/ PollEmpty \/ Cycle

SpecTime == InitTime /\ [][NextTime]_vars

-----------------------------------------------------------------------------
(* Batches: one driver under two driver handles, its variable x under the
   handles vh1 and vh3 and y under vh2; the host writes in batches while the
   worker reports its status and a value of x *)

MaxBatchWrites == 2

MaxBatchWorker == 2

OneDriverTwice ==
    <<Entry("h1", "udp_driver", Params([z \in {"ip"} |-> "a"]),
            <<Var("x", "vh1"), Var("y", "vh2")>>),
      Entry("h2", "udp_driver", Params([z \in {"ip"} |-> "a"]), <<Var("x", "vh3")>>)>>

Batches ==
    {<<Write(h, v)>> : h \in {"vh1", "vh2", "vh3"}, v \in {"1", "2"}}
        \cup {<<Write("vh1", "1"), Write("vh3", v)>> : v \in {"1", "2"}}
        \cup {<<Write("vh1", "1"), Write("vh2", "1")>>}

BatchHostUpdates == HostUpdates(Batches, MaxBatchWrites)

BatchWorkerSend ==
    \/ WorkerSend({[cmd |-> "STATUS", data |-> st] : st \in {RUNNING, ERROR}}, MaxBatchWorker)
    \/ WorkerSend({[cmd |-> "UPDATE", data |-> <<Reading("x", "2")>>]}, MaxBatchWorker)

InitBatch == InitWith(<<Frame("SETUP_DRIVERS", OneDriverTwice)>>)

NextBatch ==
    \/ BatchHostUpdates \/ BatchWorkerSend
    \/ DispatchSetup \/ DispatchUpdates \/ PollEmpty \/ Cycle

SpecBatch == InitBatch /\ [][NextBatch]_vars

-----------------------------------------------------------------------------
(* Information: the worker of one driver sends INFO texts, some of them
   latency reports *)

MaxInfos == 7

InfoMessages ==
    {[cmd |-> "INFO", data |-> text] : text \in {<<"a">>, <<"b">>, <<"Latency", "5">>}}

WorkerInfo == WorkerSend(InfoMessages, MaxInfos)

InitInfo ==
    InitWith(<<Frame("SETUP_DRIVERS", <<Entry("h1", "udp_driver",
                                              Params([z \in {"ip"} |-> "a"]),
                                              <<Var("x", "vh1")>>)>>)>>)

NextInfo == WorkerInfo \/ DispatchSetup \/ PollEmpty \/ Cycle

SpecInfo == InitInfo /\ [][NextInfo]_vars

-----------------------------------------------------------------------------
(* Reuse: the host sends setup entries that find a compatible driver, while
   the workers report their statuses *)

MaxReuseEntries == 3

MaxReuseStatus == 2

ReuseEntries ==
    {Entry(h, "udp_driver", Params([z \in {"ip"} |-> v]), <<>>) :
        h \in {"h1", "h2"}, v \in {"a", "b"}}

ReuseHostSetup == HostSetup(CommandsOver(ReuseEntries), MaxReuseEntries)

ReuseWorkerStatus ==
    WorkerSend({[cmd |-> "STATUS", data |-> st] : st \in {RUNNING, ERROR}}, MaxReuseStatus)

NextReuse == ReuseHostSetup \/ ReuseWorkerStatus \/ DispatchSetup \/ PollEmpty \/ Cycle

SpecReuse == Init /\ [][NextReuse]_vars

-----------------------------------------------------------------------------
(* Launch failures: commands of up to three entries, some of a class that is
   not registered, each entry with a variable of its own *)

MaxFailEntries == 3

FailEntries ==
    {Entry(hv[1], cp[1], Params([z \in {"ip"} |-> cp[2]]), <<Var("x", hv[2])>>) :
        hv \in {<<"h1", "vh1">>, <<"h2", "vh2">>, <<"h3", "vh3">>},
        cp \in {<<"udp_driver", "a">>, <<"udp_driver", "b">>, <<"no_driver", "a">>}}

FailCommands ==
    CommandsOver(FailEntries)
        \cup {c \in {<<e1, e2, e3>> : e1 \in FailEntries, e2 \in FailEntries, e3 \in FailEntries} :
                 Cardinality({c[1].handle, c[2].handle, c[3].handle}) = 3}

FailHostSetup == HostSetup(FailCommands, MaxFailEntries)

NextFail == FailHostSetup \/ DispatchSetup \/ PollEmpty \/ Cycle

SpecFail == Init /\ [][NextFail]_vars

-----------------------------------------------------------------------------
(* Status: every kind of host command and of worker message, on a driver that
   a second setup entry reuses or joins *)

MaxStatusSetups == 1

MaxStatusOthers == 1

MaxStatusWorker == 1

StatusEntry(h, vh, ip) ==
    Entry(h, "udp_driver", Params([z \in {"ip"} |-> ip]), <<Var("x", vh)>>)

StatusEntries == {StatusEntry("h2", "vh2", ip) : ip \in {"a", "b"}}

InitStatus == InitWith(<<Frame("SETUP_DRIVERS", <<StatusEntry("h1", "vh1", "a")>>)>>)

StatusHostSetup == HostSetup({<<e>> : e \in StatusEntries}, MaxStatusSetups)

StatusHostUpdates == HostUpdates({<<Write("vh1", "1")>>}, MaxStatusOthers)

StatusHostOther == HostCommand("PING", MaxStatusOthers)

StatusWorkerSend ==
    \/ WorkerSend({[cmd |-> "STATUS", data |-> RUNNING]}, MaxStatusWorker)
    \/ WorkerSend({[cmd |-> "INFO", data |-> <<"a">>]}, MaxStatusWorker)
    \/ WorkerSend({[cmd |-> "VAR_INFO", data |-> [var_id |-> "x", msg |-> "m"]]}, MaxStatusWorker)
    \/ WorkerSend({[cmd |-> "UPDATE", data |-> <<Reading("x", "2")>>]}, MaxStatusWorker)

NextStatus ==
    \/ StatusHostSetup \/ StatusHostUpdates \/ StatusHostOther \/ StatusWorkerSend
    \/ DispatchSetup \/ DispatchUpdates \/ DispatchOther \/ PollEmpty \/ Cycle

SpecStatus == InitStatus /\ [][NextStatus]_vars

-----------------------------------------------------------------------------
(* Variables: setup entries of one driver that name the variables x and y, one
   of them, or none, each with a variable handle or without *)

MaxVarEntries == 2

VarHandleChoices == {None, "vh1", "vh2"}

VarLists ==
    {<<>>}
        \cup {<<Var(id, vh)>> : id \in {"x", "y"}, vh \in VarHandleChoices}
        \cup {<<Var("x", vx), Var("y", vy)>> : vx \in VarHandleChoices, vy \in VarHandleChoices}

VarEntries ==
    {Entry(h, "udp_driver", Params([z \in {"ip"} |-> "a"]), vl) :
        h \in {"h1", "h2"}, vl \in VarLists}

VarHostSetup == HostSetup({<<e>> : e \in VarEntries}, MaxVarEntries)

NextVars == VarHostSetup \/ DispatchSetup \/ PollEmpty \/ Cycle

SpecVars == Init /\ [][NextVars]_vars

-----------------------------------------------------------------------------
(* Chatter: two drivers whose variable x shares a handle; the worker of the
   first may queue more messages than one pass takes, the worker of the second
   one at a time; the messages are of every kind and each is told from the
   others by its number *)

MaxChattySends == 12

ChattySetup ==
    <<Entry("h1", "udp_driver", Params([z \in {"ip"} |-> "a"]), <<Var("x", "vh1")>>),
      Entry("h2", "udp_driver", Params([z \in {"ip"} |-> "b"]), <<Var("x", "vh1")>>)>>

\* The k-th message the workers send
ChattyMessage(k) ==
    CASE k % 5 = 1 -> [cmd |-> "UPDATE", data |-> <<Reading("x", ToString(k))>>]
      [] k % 5 = 2 -> [cmd |-> "INFO", data |-> <<ToString(k)>>]
      [] k % 5 = 3 -> [cmd |-> "STATUS", data |-> IF k % 2 = 1 THEN RUNNING ELSE ERROR]
      [] k % 5 = 4 -> [cmd |-> "VAR_INFO", data |-> [var_id |-> "x", msg |-> ToString(k)]]
      [] OTHER -> [cmd |-> "ALIVE", data |-> None]

ChattySend ==
    \E i \in 1..Len(drivers) :
        LET msg == ChattyMessage(used.worker + 1)
        IN /\ procs[drivers[i].name] = "started"
           /\ used.worker < MaxChattySends
           /\ Len(drivers[i].pipe) < (IF i = 1 THEN MaxChattySends ELSE 1)
           /\ drivers' = [drivers EXCEPT ![i].pipe = Append(@, msg)]
           /\ used' = [used EXCEPT !.worker = @ + 1]
           /\ wvalues' = IF msg.cmd = "UPDATE"
                         THEN Emitted(wvalues, drivers[i].name, msg.data)
                         ELSE wvalues
           /\ UNCHANGED <<driver_counter, handles, running, status_updates, info_updates,
                          var_info_updates, value_updates, stats_updates, last_status_record,
                          logs, now, pc, counter, hostIn, hostOut, sent, procs, joined, attach,
                          hvalues, handled, stats_sent, fvalues, infos, marks>>

InitChatty == InitWith(<<Frame("SETUP_DRIVERS", ChattySetup)>>)

NextChatty == ChattySend \/ DispatchSetup \/ PollEmpty \/ Cycle

SpecChatty == InitChatty /\ [][NextChatty]_vars

-----------------------------------------------------------------------------
(* Provisioning: the host sends setup commands over classes and parameters *)

MaxSetupEntries == 3

ProvEntries ==
    {Entry(h, c, p, <<>>) :
        h \in {"h1", "h2"},
        c \in {"udp_driver", "no_driver"},
        p \in {NoParams} \cup {Params(f) : f \in PartialMaps({"ip"}, {"a", "b"})}}

ProvHostSetup == HostSetup(CommandsOver(ProvEntries), MaxSetupEntries)

NextProv == ProvHostSetup \/ DispatchSetup \/ PollEmpty \/ Cycle

SpecProv == Init /\ [][NextProv]_vars

-----------------------------------------------------------------------------
(* Lifecycle: setup, host writes, worker status, CLEAN and the joins *)

MaxLifeSetups == 2

MaxLifeWrites == 1

MaxLifeCleans == 2

LifeEntries ==
    {Entry(h, "udp_driver", Params([k \in {"ip"} |-> v]), <<Var("x", "vh1")>>) :
        h \in {"h1", "h2"}, v \in {"a", "b"}}

LifeHostSetup == HostSetup(CommandsOver(LifeEntries), MaxLifeSetups)

LifeHostUpdates == HostUpdates({<<Write("vh1", "1")>>}, MaxLifeWrites)

HostClean == HostCommand("CLEAN", MaxLifeCleans)

MaxLifeStatus == 1

WorkerStatus == WorkerSend({[cmd |-> "STATUS", data |-> RUNNING]}, MaxLifeStatus)

Next ==
    \/ LifeHostSetup \/ LifeHostUpdates \/ HostClean \/ WorkerStatus \/ WorkerExit
    \/ DispatchSetup \/ DispatchUpdates \/ DispatchClean \/ JoinWorker \/ CleanReturn
    \/ ReplyClean \/ PollEmpty \/ Cycle \/ Close

Spec == Init /\ [][Next]_vars

\* Shutdown alone: setups, CLEAN and the workers' ends
NextClean ==
    \/ LifeHostSetup \/ HostClean \/ WorkerExit
    \/ DispatchSetup \/ DispatchClean \/ JoinWorker \/ CleanReturn
    \/ ReplyClean \/ PollEmpty \/ Cycle \/ Close

SpecClean == Init /\ [][NextClean]_vars


-----------------------------------------------------------------------------
(* Flood: the host keeps the channel filled with more frames than one loop
   iteration dispatches, most of them of a command the manager does not know,
   among them a setup, a write and CLEAN *)

MaxFloodFrames == 11

FloodHost ==
    \/ HostCommand("PING", MaxFloodFrames)
    \/ HostClean
    \/ LifeHostUpdates
    \/ HostSetup({<<Entry("h2", "udp_driver", Params([z \in {"ip"} |-> "a"]), <<>>)>>}, MaxStatusSetups)

NextFlood ==
    \/ FloodHost \/ WorkerExit
    \/ DispatchSetup \/ DispatchUpdates \/ DispatchOther \/ DispatchClean \/ JoinWorker
    \/ CleanReturn \/ ReplyClean \/ PollEmpty \/ Cycle \/ Close

SpecFlood == InitInfo /\ [][NextFlood]_vars

-----------------------------------------------------------------------------
(* Exit: a worker that leaves its loop on its own, reporting EXITED as its
   last message, while the host goes on with a setup that reuses the
   driver, writes and CLEAN *)

MaxExitWorker == 1

MaxExitCleans == 1

ExitWorkerSend ==
    WorkerSend({[cmd |-> "STATUS", data |-> st] : st \in {RUNNING, ERROR}}, MaxExitWorker)

\* A live worker stops: it reports EXITED and sends nothing after it
WorkerStop ==
    \E i \in 1..Len(drivers) :
        /\ procs[drivers[i].name] = "started"
        /\ Len(drivers[i].pipe) < MaxPipe
        /\ drivers' = [drivers EXCEPT ![i].pipe = Append(@, [cmd |-> "STATUS", data |-> EXITED])]
        /\ procs' = [procs EXCEPT ![drivers[i].name] = "exited"]
        /\ UNCHANGED <<driver_counter, handles, running, status_updates, info_updates,
                       var_info_updates, value_updates, stats_updates, last_status_record,
                       logs, now, pc, counter, hostIn, hostOut, sent, joined, attach, used,
                       wvalues, hvalues, handled, stats_sent, fvalues, infos, marks>>

ExitHost ==
    \/ HostSetup({<<StatusEntry("h2", "vh2", "a")>>}, MaxStatusSetups)
    \/ StatusHostUpdates
    \/ HostCommand("CLEAN", MaxExitCleans)

NextExit ==
    \/ ExitHost \/ ExitWorkerSend \/ WorkerStop \/ WorkerExit
    \/ DispatchSetup \/ DispatchUpdates \/ DispatchClean \/ JoinWorker
    \/ CleanReturn \/ ReplyClean \/ PollEmpty \/ Cycle \/ Close

SpecExit == InitStatus /\ [][NextExit]_vars

-----------------------------------------------------------------------------
(* Alias: a driver with x under vh1 whose worker reports its status, values of
   x and a text for x; the host writes x and sends a setup entry that puts x
   under a second handle, vh2 *)

MaxAliasWorker == 3

AliasWorkerSend ==
    \/ WorkerSend({[cmd |-> "STATUS", data |-> RUNNING]}, MaxAliasWorker)
    \/ WorkerSend({[cmd |-> "UPDATE", data |-> <<Reading("x", v)>>] : v \in {"1", "2"}},
                  MaxAliasWorker)
    \/ WorkerSend({[cmd |-> "VAR_INFO", data |-> [var_id |-> "x", msg |-> "m"]]},
                  MaxAliasWorker)

AliasHost ==
    \/ HostSetup({<<StatusEntry("h2", "vh2", "a")>>}, MaxStatusSetups)
    \/ StatusHostUpdates

NextAlias ==
    \/ AliasHost \/ AliasWorkerSend
    \/ DispatchSetup \/ DispatchUpdates \/ PollEmpty \/ Cycle

SpecAlias == InitStatus /\ [][NextAlias]_vars

\* The steps of the manager's thread during shutdown, but for the handling of
\* SETUP_DRIVERS
ManagerStep ==
    \/ DispatchClean \/ JoinWorker \/ CleanReturn
    \/ ReplyClean \/ PollEmpty \/ Cycle \/ Close

\* The manager takes the SETUP_DRIVERS frame at the head of the host channel:
\* the step DispatchSetup, told by what it does to the channel
TakeSetup == Receiving("SETUP_DRIVERS")

\* Shutdown with a manager thread that keeps running and workers that end
\* once they have received EXIT.  Every step of the manager changes its
\* position, its frame count, the registry or the host channel.
SpecCleanLive ==
    /\ SpecClean
    /\ WF_<<pc, counter, drivers>>(ManagerStep)
    /\ WF_hostIn(TakeSetup)
    /\ WF_procs(WorkerExit)

\* The manager thread goes on to run_once when no host frame waits, and
\* run_once returns: the steps PollEmpty and Cycle, told by the loop position
PassStep ==
    \/ pc = "poll" /\ hostIn = <<>> /\ pc' = "run_once"
    \/ pc = "run_once" /\ running /\ pc' = "poll"

SpecChattyLive == SpecChatty /\ WF_pc(PassStep)

-----------------------------------------------------------------------------
(* The claims *)

Live(n) == IndexOf(drivers, n) # 0

DriverNamed(n) == drivers[IndexOf(drivers, n)]

\* Some driver record of the registry lists the driver handle h
Listed(h) == \E i \in 1..Len(drivers) : h \in Range(drivers[i].handlers)

SetupReplies(out) == {out[i] : i \in {j \in 1..Len(out) : out[j].cmd = "SETUP_DRIVERS"}}

\* C2 as stated: after a SETUP_DRIVERS command, the reply entry of a handle is
\* "SUCCESS" if and only if some driver record lists the handle.
C2_ReplyIffListed ==
    \A f \in SetupReplies(hostOut) : \A h \in DOMAIN f.data :
        (f.data[h] = "SUCCESS") <=> Listed(h)

\* C2 as amended: every reply entry is "SUCCESS" or "FAILED"; a handle answered
\* "SUCCESS" is listed by a driver record after the command; a handle answered
\* "FAILED" that no record listed before the command is listed by none after it.
C2_ReplyMatchesAttachment ==
    [][\A f \in SetupReplies(hostOut') : \A h \in DOMAIN f.data :
          /\ f.data[h] \in {"SUCCESS", "FAILED"}
          /\ f.data[h] = "SUCCESS" => Listed(h)'
          /\ (f.data[h] = "FAILED" /\ ~Listed(h)) => ~Listed(h)']_vars

\* A reply with a "SUCCESS" entry and a "FAILED" entry, the failed handle unlisted
C2_Witness ==
    \E f \in SetupReplies(hostOut) : \E h1, h2 \in DOMAIN f.data :
        f.data[h1] = "SUCCESS" /\ f.data[h2] = "FAILED" /\ Listed(h1) /\ ~Listed(h2)

SameSpec(a, b) == a.class_name = b.class_name /\ a.parameters = b.parameters

\* C3: entries submitted with the same class and the same parameters obtain the
\* same driver record, which lists the handles of all of them, so that the
\* registry holds at most one driver per submitted spec.
C3_ResubmitSameDriver ==
    /\ \A a, b \in attach :
          (SameSpec(a, b) /\ Live(a.name) /\ Live(b.name)) => a.name = b.name
    /\ \A a \in attach :
          Live(a.name) => a.handle \in Range(DriverNamed(a.name).handlers)
    /\ Len(drivers) <= Cardinality({<<a.class_name, a.parameters>> : a \in attach})

\* A spec submitted under two handles while another driver exists: one driver
\* holds both handles
C3_Witness ==
    \E a, b \in attach :
        /\ SameSpec(a, b) /\ a.handle # b.handle /\ a.name = b.name
        /\ Live(a.name)
        /\ {a.handle, b.handle} \subseteq Range(DriverNamed(a.name).handlers)
        /\ Len(drivers) = 2

\* The keys on which two specs with parameter mappings carry different values
Conflicts(a, b) ==
    IF a.parameters.isnone \/ b.parameters.isnone THEN {}
    ELSE {key \in (DOMAIN a.parameters.d) \cap (DOMAIN b.parameters.d) :
             a.parameters.d[key] # b.parameters.d[key]}

\* C4 as stated: two specs of one class that differ in the value of a key
\* present in both are never attached to the same driver.
C4_ConflictingNeverShare ==
    \A a, b \in attach :
        (a.class_name = b.class_name /\ Conflicts(a, b) # {}) => a.name # b.name

\* C4 as amended: two specs of one class that differ in the value of a key
\* present in both share a driver only if the driver's own parameters lack
\* that key.
C4_ConflictingShareOnlyKeyless ==
    \A a, b \in attach :
        (a.class_name = b.class_name /\ a.name = b.name /\ Live(a.name)) =>
            \A key \in Conflicts(a, b) :
                key \notin DOMAIN DriverNamed(a.name).parameters.d

\* Two conflicting specs were submitted and sit on different drivers
C4_Witness ==
    \E a, b \in attach :
        /\ a.class_name = b.class_name /\ Conflicts(a, b) # {}
        /\ a.name # b.name /\ Live(a.name) /\ Live(b.name)

\* C1: every handle of the Handle Index resolves to a driver of the registry
\* and a variable of that driver whose handlers contain the handle.
C1_HandleIndexResolves ==
    \A h \in DOMAIN handles :
        LET var_id == handles[h][1]
            n == handles[h][2]
        IN /\ Live(n)
           /\ var_id \in DOMAIN DriverNamed(n).variables
           /\ h \in Range(DriverNamed(n).variables[var_id].handlers)

CleanReplied ==
    \E i \in 1..Len(hostOut) : hostOut[i].cmd = "CLEAN" /\ hostOut[i].data = "SUCCESS"

AllJoined == DOMAIN procs \subseteq joined

\* C8: once the manager loop has exited after a CLEAN, every worker that was
\* started has been joined and the registry is empty.
C8_ClosedMeansAllJoined ==
    pc = "closed" => (drivers = <<>> /\ AllJoined)

\* C9: on CLEAN, EXIT is on the channel of every driver before the joins
\* start; a join returns only for a worker that has ended; the running flag is
\* cleared only once the registry is empty and every worker joined; the
\* "SUCCESS" reply is sent only after that.
CleanOrderState ==
    /\ pc = "joining" =>
          \A i \in 1..Len(drivers) : procs[drivers[i].name] \in {"exiting", "exited"}
    /\ \A n \in joined : procs[n] = "exited" /\ ~Live(n)
    /\ pc = "reply" => (~running /\ drivers = <<>> /\ AllJoined)
    /\ CleanReplied => (~running /\ drivers = <<>> /\ AllJoined)

C9_CleanOrder ==
    [][/\ CleanOrderState'
       /\ (running /\ ~running') => (drivers' = <<>> /\ AllJoined' /\ ~CleanReplied')]_vars

\* The reply to a CLEAN that had two workers to join
C9_Witness == CleanReplied /\ Cardinality(joined) = 2 /\ drivers = <<>>

\* C10: after a CLEAN command completes, the Handle Index is empty.
C10_HandleIndexEmptyAfterClean ==
    CleanReplied => DOMAIN handles = {}

\* The manager takes an UPDATES frame off the host channel in this step
WritesDispatched ==
    pc = "poll" /\ hostIn # <<>> /\ Head(hostIn).cmd = "UPDATES" /\ hostIn' = Tail(hostIn)

\* The UPDATE messages among the messages msgs, to the worker of driver n
UpdatesTo(msgs, n) == {k \in 1..Len(msgs) : msgs[k].cmd = "UPDATE" /\ msgs[k].to = n}

\* The UPDATES payload data asks driver n, through a handle that resolves to
\* it, to set var_id to value
Asked(data, n, var_id, value) ==
    \E k \in 1..Len(data) :
        /\ data[k].handle \in DOMAIN handles
        /\ handles[data[k].handle] = <<var_id, n>>
        /\ data[k].value = value

\* C5: while a driver's status is not RUNNING, the handling of an UPDATES
\* command sends its worker no UPDATE message and leaves its variables (value
\* and write_count) and its pending updates as they were; no write is kept for
\* later: the pending updates are empty outside the handling, an UPDATE message
\* goes out only in the step that handles an UPDATES command, and carries only
\* values that this very command asks of a driver that is RUNNING.
C5_NoWriteUnlessRunning ==
    [][/\ WritesDispatched =>
            /\ \A i \in 1..Len(drivers) :
                   drivers[i].status # RUNNING =>
                       /\ UpdatesTo(sent', drivers[i].name) = {}
                       /\ drivers'[i].variables = drivers[i].variables
                       /\ drivers'[i].updates = drivers[i].updates
            /\ \A k \in 1..Len(sent') :
                   sent'[k].cmd = "UPDATE" =>
                       /\ Live(sent'[k].to)
                       /\ DriverNamed(sent'[k].to).status = RUNNING
                       /\ \A var_id \in DOMAIN sent'[k].data :
                              Asked(Head(hostIn).data, sent'[k].to, var_id,
                                    sent'[k].data[var_id])
       /\ (~WritesDispatched /\ sent' # sent) =>
              \A k \in 1..Len(sent') : sent'[k].cmd # "UPDATE"
       /\ \A i \in 1..Len(drivers') : drivers'[i].updates = EmptyDict]_vars

\* An UPDATES command has been handled that wrote to the variable of a driver
\* that is not RUNNING (DRIVER_2) and to one that is (DRIVER_1), and the
\* stopped driver has been RUNNING before
C5_Witness ==
    /\ handled # <<>>
    /\ handled[1].cmd = "UPDATES"
    /\ \E k \in 1..Len(handled[1].data) : handled[1].data[k].handle = "vh2"
    /\ Live(2)
    /\ DriverNamed(2).status = ERROR
    /\ UpdatesTo(sent, 1) # {}

\* a is b with some of its elements left out
RECURSIVE IsSubsequence(_, _)
IsSubsequence(a, b) ==
    IF a = <<>> THEN TRUE
    ELSE IF b = <<>> THEN FALSE
    ELSE IF Head(a) = Head(b) THEN IsSubsequence(Tail(a), Tail(b))
    ELSE IsSubsequence(a, Tail(b))

\* C6: the values the host has been sent under a handle, frame after frame,
\* are a subsequence of the values the worker has sent of every variable that
\* has this handle.
C6_ObservedIsSubsequence ==
    \A h \in DOMAIN hvalues :
        \A i \in 1..Len(drivers) :
            \A var_id \in DOMAIN drivers[i].variables :
                h \in Range(drivers[i].variables[var_id].handlers) =>
                    IsSubsequence(hvalues[h],
                                  IF <<drivers[i].name, var_id>> \in DOMAIN wvalues
                                  THEN wvalues[<<drivers[i].name, var_id>>]
                                  ELSE <<>>)

\* C7: every second the loop has recorded has had its STATS frame by the end
\* of the cycle that recorded it.
C7_OneStatsPerSecond == stats_sent = last_status_record

\* C11: once CLEAN has been handled (the running flag is cleared) the manager
\* takes no further frame off the host channel and runs no reconciler pass.
C11_NothingAfterClean ==
    [][~running => (Len(hostIn') >= Len(hostIn) /\ ~(pc = "run_once" /\ pc' = "poll"))]_vars

\* s has no element twice
NoDuplicate(s) == \A i, j \in 1..Len(s) : s[i] = s[j] => i = j

\* C12: every driver record has at least one handler and no handler twice.
C12_HandlersDistinct ==
    \A i \in 1..Len(drivers) : Len(drivers[i].handlers) >= 1 /\ NoDuplicate(drivers[i].handlers)

\* C13: a handle in the handlers of variable v of the live driver d is mapped
\* by the Handle Index to exactly (v, d).
C13_VariableHandleIndexed ==
    \A i \in 1..Len(drivers) :
        \A var_id \in DOMAIN drivers[i].variables :
            \A h \in Range(drivers[i].variables[var_id].handlers) :
                h \in DOMAIN handles /\ handles[h] = <<var_id, drivers[i].name>>

\* C14: the values an UPDATES command puts in a driver's pending updates, and
\* forwards, differ from the value last forwarded to the worker for the same
\* variable.
C14_ForwardedDiffersFromLast ==
    [][WritesDispatched =>
           \A k \in 1..Len(sent') :
               sent'[k].cmd = "UPDATE" =>
                   \A var_id \in DOMAIN sent'[k].data :
                       <<sent'[k].to, var_id>> \in DOMAIN fvalues =>
                           sent'[k].data[var_id] # fvalues[<<sent'[k].to, var_id>>]]_vars

\* The greatest element of a non-empty set of numbers
Max(S) == CHOOSE x \in S : \A y \in S : y <= x

\* Entry k of the UPDATES payload data names a handle of variable var_id of driver n
Names(data, k, n, var_id) ==
    /\ Live(n)
    /\ var_id \in DOMAIN DriverNamed(n).variables
    /\ data[k].handle \in Range(DriverNamed(n).variables[var_id].handlers)

\* The value of variable var_id of the driver d when entry k of data is reached
ValueBefore(data, k, d, var_id) ==
    LET earlier == {j \in 1..(k - 1) : Names(data, j, d.name, var_id)}
    IN IF earlier = {} THEN d.variables[var_id].value ELSE data[Max(earlier)].value

\* Entry k of data is accepted as a write to variable var_id of the driver d
Accepted(data, k, d, var_id) ==
    Names(data, k, d.name, var_id) /\ data[k].value # ValueBefore(data, k, d, var_id)

\* C20: an UPDATES command sends a RUNNING driver exactly one UPDATE message
\* when some entry names a handle of one of its variables with a value other
\* than the variable's current one, and none otherwise; the message holds the
\* written variables with their last written values; every accepted entry sets
\* the value and adds one to write_count; afterwards no driver has pending
\* updates.
C20_OneUpdatePerDriver ==
    [][(WritesDispatched /\ pc' # "crashed") =>
           LET data == Head(hostIn).data
           IN /\ \A i \in 1..Len(drivers') : drivers'[i].updates = EmptyDict
              /\ \A i \in 1..Len(drivers) :
                     LET d == drivers[i]
                         written == {v \in DOMAIN d.variables :
                                        \E k \in 1..Len(data) : Accepted(data, k, d, v)}
                     IN d.status = RUNNING =>
                            /\ Cardinality(UpdatesTo(sent', d.name)) =
                                   IF \E k \in 1..Len(data), v \in DOMAIN d.variables :
                                          /\ Names(data, k, d.name, v)
                                          /\ data[k].value # d.variables[v].value
                                   THEN 1 ELSE 0
                            /\ \A k \in UpdatesTo(sent', d.name) :
                                   sent'[k].data = [v \in written |-> drivers'[i].variables[v].value]
                            /\ \A v \in DOMAIN d.variables :
                                   LET ks == {k \in 1..Len(data) : Names(data, k, d.name, v)}
                                   IN /\ drivers'[i].variables[v].write_count =
                                             d.variables[v].write_count
                                                 + Cardinality({k \in ks : Accepted(data, k, d, v)})
                                      /\ drivers'[i].variables[v].value =
                                             IF ks = {} THEN d.variables[v].value
                                             ELSE data[Max(ks)].value]_vars

\* A batch of two accepted writes to x, through its two handles, has been sent
\* to the worker in one message, and a batch before it was accepted too
C20_Witness ==
    /\ handled # <<>>
    /\ handled[1].cmd = "UPDATES"
    /\ Len(handled[1].data) = 2
    /\ handled[1].data[2].handle = "vh3"
    /\ Cardinality(UpdatesTo(sent, 1)) = 1
    /\ drivers[1].variables["x"].write_count = 3

\* The names of the records in the registry ds
NamesOf(ds) == {ds[i].name : i \in 1..Len(ds)}

\* C15: the counter never decreases; a record that enters the registry has a
\* name above every name given before (the counter's old value) and at most
\* the counter's new value; the registry never holds a name twice; the first
\* record created is DRIVER_1.
C15_NamesNeverReused ==
    [][/\ driver_counter' >= driver_counter
       /\ \A i \in 1..Len(drivers') :
              drivers'[i].name \notin NamesOf(drivers) =>
                  drivers'[i].name > driver_counter /\ drivers'[i].name <= driver_counter'
       /\ \A i, j \in 1..Len(drivers') : drivers'[i].name = drivers'[j].name => i = j
       /\ (driver_counter = 0 /\ drivers' # <<>>) => drivers'[1].name = 1]_vars

\* A driver has been created after CLEAN emptied the registry: it is DRIVER_2
C15_Witness ==
    ~running /\ joined = {1} /\ Len(drivers) = 1 /\ drivers[1].name = 2

\* The last min(n, Len(s)) elements of s, in order
Suffix(s, n) ==
    LET m == IF Len(s) < n THEN Len(s) ELSE n
    IN [k \in 1..m |-> s[Len(s) - m + k]]

\* C16: each driver's info_log has at most 5 entries and is the last
\* min(5, n) of the n non-latency INFO texts received from the driver, in
\* the order of their reception.
C16_InfoLogIsLastFive ==
    \A i \in 1..Len(drivers) :
        /\ Len(drivers[i].info_log) <= 5
        /\ drivers[i].info_log =
               Suffix(IF drivers[i].name \in DOMAIN infos THEN infos[drivers[i].name] ELSE <<>>, 5)

\* Six non-latency texts and a latency report have been received: the log
\* holds five texts and has lost the first
C16_Witness ==
    /\ 1 \in DOMAIN infos
    /\ Len(infos[1]) = 6
    /\ infos[1][1] # infos[1][2]
    /\ drivers[1].latency # ""
    /\ Len(drivers[1].info_log) = 5

\* C17: every driver's status is one of SETUP, RUNNING, ERROR, EXITED (and so
\* SETUP from the creation of the record on).
C17_StatusIsAStatus == \A i \in 1..Len(drivers) : drivers[i].status \in DriverStatus

\* The manager takes a SETUP_DRIVERS frame off the host channel in this step
SetupDispatched ==
    /\ pc = "poll" /\ hostIn # <<>> /\ Head(hostIn).cmd = "SETUP_DRIVERS"
    /\ hostIn' = Tail(hostIn) /\ pc' # "crashed"

\* The STATUS frames among the frames out
StatusFrames(out) == {out[k] : k \in {j \in 1..Len(out) : out[j].cmd = "STATUS"}}

\* C18: the handle of a setup entry that finds a compatible driver is appended
\* to that driver's handlers, and the next STATUS frame sent to the host maps
\* the handle to the status the driver then has.
C18_ReuseReportsStatus ==
    [][/\ SetupDispatched =>
              LET e == Head(hostIn).data[1]
                  i == find_compatible_driver(drivers, e.data)
              IN i > 0 =>
                     /\ SubSeq(drivers'[i].handlers, 1, Len(drivers[i].handlers) + 1)
                            = Append(drivers[i].handlers, e.handle)
                     /\ <<e.handle, drivers[i].name>> \in marks'
       /\ (pc = "run_once" /\ pc' = "poll") =>
              \A mk \in marks :
                  Live(mk[2]) =>
                      /\ StatusFrames(hostOut') # {}
                      /\ \A f \in StatusFrames(hostOut') :
                             /\ mk[1] \in DOMAIN f.data
                             /\ f.data[mk[1]] = DriverNamed(mk[2])'.status]_vars

\* The keys of a parameters mapping, none when there is no mapping
Keys(p) == IF p.isnone THEN {} ELSE DOMAIN p.d

\* The driver d has the class of the request and the same value as the
\* request for every parameter key that both have
Agrees(d, req) ==
    /\ d.class_name = req.DRIVER
    /\ \A key \in Keys(d.parameters) \cap Keys(req.parameters) :
           d.parameters.d[key] = req.parameters.d[key]

ProvRequests == {e.data : e \in ProvEntries}

\* C19: whenever find_compatible_driver returns, it returns the first driver
\* of the registry that agrees with the request, and none exactly when no
\* driver of the registry agrees with it.
C19_FirstAgreeingDriver ==
    \A req \in ProvRequests :
        LET r == find_compatible_driver(drivers, req)
            S == {i \in 1..Len(drivers) : Agrees(drivers[i], req)}
        IN r # -1 => r = (IF S = {} THEN 0 ELSE CHOOSE i \in S : \A j \in S : i <= j)

\* Two drivers: one request finds the second, one agrees with both and finds
\* the first, one finds none
C19_Witness ==
    /\ Len(drivers) = 2
    /\ \E req \in ProvRequests : find_compatible_driver(drivers, req) = 2
    /\ \E req \in ProvRequests :
           find_compatible_driver(drivers, req) = 1 /\ Agrees(drivers[2], req)
    /\ \E req \in ProvRequests : find_compatible_driver(drivers, req) = 0

\* The messages one pass of run_once takes from the channel q
Taken(q) == SubSeq(q, 1, IF Len(q) > max_pipe_loops THEN max_pipe_loops ELSE Len(q))

\* The value an UPDATE payload holds for var_id, as a sequence of none or one
ReadingOf(data, var_id) ==
    LET S == {k \in 1..Len(data) : data[k].id = var_id}
    IN IF S = {} THEN <<>> ELSE <<data[CHOOSE k \in S : TRUE].value>>

\* The values of var_id in the UPDATE messages among msgs, in their order
RECURSIVE ValuesOf(_, _)
ValuesOf(msgs, var_id) ==
    IF msgs = <<>> THEN <<>>
    ELSE (IF Head(msgs).cmd = "UPDATE" THEN ReadingOf(Head(msgs).data, var_id) ELSE <<>>)
             \o ValuesOf(Tail(msgs), var_id)

\* The positions of vs whose value differs from the value current when it is
\* processed, the variable holding c0 at first
Differing(vs, c0) == {k \in 1..Len(vs) : vs[k] # (IF k = 1 THEN c0 ELSE vs[k - 1])}

\* The UPDATES frames among the frames out
UpdatesFrames(out) == {out[k] : k \in {j \in 1..Len(out) : out[j].cmd = "UPDATES"}}

\* C21: of the UPDATE messages one cycle processes for a variable, each one
\* whose value differs from the value current when it is processed adds one to
\* read_count; if there is one, the cycle sends a single UPDATES frame, which
\* carries under each handle of the variable the last value that differed; the
\* frame carries nothing else.
C21_CycleCarriesLastDiffering ==
    [][(pc = "run_once" /\ pc' = "poll") =>
           LET vs(i, var_id) == ValuesOf(Taken(drivers[i].pipe), var_id)
               ks(i, var_id) == Differing(vs(i, var_id), drivers[i].variables[var_id].value)
               changed == {<<i, var_id>> \in UNION {{<<j, v>> : v \in DOMAIN drivers[j].variables} :
                                                       j \in 1..Len(drivers)} :
                              ks(i, var_id) # {}}
           IN /\ \A i \in 1..Len(drivers) : \A var_id \in DOMAIN drivers[i].variables :
                     /\ drivers'[i].variables[var_id].read_count =
                            drivers[i].variables[var_id].read_count + Cardinality(ks(i, var_id))
                     /\ ks(i, var_id) # {} =>
                            /\ Cardinality(UpdatesFrames(hostOut')) = 1
                            /\ \A f \in UpdatesFrames(hostOut') :
                                   \A h \in Range(drivers[i].variables[var_id].handlers) :
                                       /\ h \in DOMAIN f.data
                                       /\ f.data[h] = vs(i, var_id)[Max(ks(i, var_id))]
              /\ \A f \in UpdatesFrames(hostOut') :
                     DOMAIN f.data = UNION {Range(drivers[c[1]].variables[c[2]].handlers) : c \in changed}]_vars

\* The entries of a setup payload whose class is registered
Launchable(data) == SelectSeq(data, LAMBDA e : e.data.DRIVER \in registered_drivers)

\* Some driver record of the registry ds lists the driver handle h
ListedIn(ds, h) == \E i \in 1..Len(ds) : h \in Range(ds[i].handlers)

\* The variable handles a setup entry asks for
VarHandles(e) == {e.data.variables[k].data.handle : k \in 1..Len(e.data.variables)} \ {None}

\* C22: a setup entry of a class that is not registered is answered "FAILED";
\* it puts its handle on no driver record and its variable handles in no Handle
\* Index entry, and takes no driver name; the registry, the Handle Index, the
\* counter, the workers started, the messages sent to workers and the reply
\* entries of the other handles are those of the same command without it.
C22_FailedEntryLeavesNoTrace ==
    [][SetupDispatched =>
           LET data == Head(hostIn).data
               failed == {k \in 1..Len(data) : data[k].data.DRIVER \notin registered_drivers}
               rest == setup_drivers(Log(Mgr, "info", "setup drivers request received"),
                                     Launchable(data))
           IN /\ \A f \in SetupReplies(hostOut') :
                     /\ \A k \in failed : f.data[data[k].handle] = "FAILED"
                     /\ DOMAIN f.data = {data[k].handle : k \in 1..Len(data)}
                     /\ \A h \in DOMAIN rest.res : f.data[h] = rest.res[h]
              /\ SetupReplies(hostOut') # {}
              /\ \A k \in failed :
                     /\ ~ListedIn(drivers, data[k].handle) => ~ListedIn(drivers', data[k].handle)
                     /\ \A vh \in VarHandles(data[k]) :
                            (vh \notin DOMAIN handles
                                /\ \A j \in (1..Len(data)) \ failed : vh \notin VarHandles(data[j]))
                                => vh \notin DOMAIN handles'
              /\ Len(drivers') - Len(drivers) <= Len(data) - Cardinality(failed)
              /\ driver_counter' - driver_counter = Len(drivers') - Len(drivers)
              /\ drivers' = rest.m.drivers
              /\ handles' = rest.m.handles
              /\ driver_counter' = rest.m.driver_counter
              /\ procs' = rest.m.procs
              /\ sent' = rest.m.sent
              /\ status_updates' = rest.m.status_updates]_vars

\* A command of three entries, the second of a class that is not registered,
\* has been answered: a driver was created before the failed entry and one
\* after it
C22_Witness ==
    /\ handled # <<>>
    /\ handled[1].cmd = "SETUP_DRIVERS"
    /\ Len(handled[1].data) = 3
    /\ handled[1].data[2].data.DRIVER = "no_driver"
    /\ \E f \in SetupReplies(hostOut) :
           /\ f.data[handled[1].data[1].handle] = "SUCCESS"
           /\ f.data[handled[1].data[2].handle] = "FAILED"
           /\ f.data[handled[1].data[3].handle] = "SUCCESS"
    /\ Len(drivers) = 2
    /\ driver_counter = 2
    /\ Cardinality(DOMAIN handles) = 2

\* The entries of an UPDATES payload whose handle is in the Handle Index
Known(data) == SelectSeq(data, LAMBDA w : w.handle \in DOMAIN handles)

\* C23: an UPDATES command completes whatever handles it names; each entry
\* whose handle is not in the Handle Index leaves one error log and nothing
\* else: the drivers, their variables and the messages sent to the workers are
\* those of the same batch without these entries, and a batch of unknown
\* handles alone changes and sends nothing; the Handle Index is untouched.
C23_UnknownHandleDropped ==
    [][WritesDispatched =>
           LET data == Head(hostIn).data
               unknown == {k \in 1..Len(data) : data[k].handle \notin DOMAIN handles}
               rest == host_updates(Mgr, Known(data))
           IN /\ pc' # "crashed"
              /\ Len(logs') = Cardinality(unknown)
              /\ \A k \in 1..Len(logs') : logs'[k][1] = "error"
              /\ drivers' = rest.drivers
              /\ sent' = rest.sent
              /\ handles' = handles
              /\ unknown = 1..Len(data) => (drivers' = drivers /\ sent' = <<>>)]_vars

\* A batch with an unknown handle between the handles of two RUNNING drivers
\* has been handled: one error log, and an UPDATE message to each driver
C23_Witness ==
    /\ handled # <<>>
    /\ handled[1].cmd = "UPDATES"
    /\ Len(handled[1].data) = 3
    /\ handled[1].data[2].handle = "vh9"
    /\ Len(logs) = 1
    /\ UpdatesTo(sent, 1) # {}
    /\ UpdatesTo(sent, 2) # {}

\* C24: no host command aborts the manager loop: run_forever never leaves by
\* an exception raised while it handles a SETUP_DRIVERS or an UPDATES command.
C24_NoCommandAborts == pc # "crashed"

\* C26: a CLEAN command the manager has taken up is eventually answered
\* "SUCCESS", and the answer is eventually followed by the end of the manager
\* loop; the manager leaves the joins only with an empty registry, however
\* long the workers take.
C26_CleanEventuallyCloses ==
    /\ (pc = "joining") ~> CleanReplied
    /\ CleanReplied ~> (pc = "closed")
    /\ [][(pc = "joining" /\ pc' # "joining") => drivers = <<>>]_vars

\* The loop has ended after a CLEAN that joined two workers
C26_Witness == pc = "closed" /\ Cardinality(joined) = 2 /\ ~running

\* C27: the status of a driver record changes only in a reconciler pass that
\* takes from the driver's channel a STATUS message with the new status; the
\* steps that handle SETUP_DRIVERS, UPDATES or an unknown host command, and a
\* pass over INFO, VAR_INFO and UPDATE messages alone, leave every status as
\* it was.
C27_StatusOnlyByStatusMessage ==
    [][\A i \in 1..Len(drivers) :
           (i <= Len(drivers') /\ drivers'[i].name = drivers[i].name
               /\ drivers'[i].status # drivers[i].status) =>
               /\ pc = "run_once" /\ pc' = "poll"
               /\ \E k \in 1..Len(Taken(drivers[i].pipe)) :
                      /\ drivers[i].pipe[k].cmd = "STATUS"
                      /\ drivers[i].pipe[k].data = drivers'[i].status]_vars

\* A driver that a STATUS message took to RUNNING has since been reused by a
\* second setup entry, and an unknown command has been handled
C27_Witness ==
    /\ Len(drivers) = 1
    /\ used.setup = 1
    /\ drivers[1].status = RUNNING
    /\ Len(drivers[1].handlers) = 2
    /\ handled # <<>>
    /\ handled[1].cmd = "PING"

\* C28: the value run_once returns is true exactly when get_updates would
\* return data, that is when one of the status, info, variable-info, value
\* and stats maps is non-empty after the pass.
C28_ResultIffUpdateData ==
    [][(pc = "run_once" /\ pc' = "poll") =>
           LET r == poll_drivers(Rec)
               stats == IF stats_due THEN new_stats ELSE stats_updates
           IN run_once_result(r) <=>
                  \/ DOMAIN r.status_updates # {}
                  \/ DOMAIN r.info_updates # {}
                  \/ DOMAIN r.var_info_updates # {}
                  \/ DOMAIN r.value_updates # {}
                  \/ DOMAIN stats # {}]_vars

\* The ADD_VARIABLES messages among the messages msgs
AddVariables(msgs) == {msgs[k] : k \in {j \in 1..Len(msgs) : msgs[j].cmd = "ADD_VARIABLES"}}

\* C29: one registration call (the setup of one entry) skips every variable
\* entry without a handle; a new var_id with a handle gets a variable record
\* with handlers = [handle] and no value; an existing var_id gets the handle
\* appended and nothing else; the worker is sent one ADD_VARIABLES message with
\* exactly the newly created variables, and none when nothing was created.
C29_RegistrationPerCall ==
    [][(SetupDispatched /\ Len(Head(hostIn).data) = 1) =>
           LET e == Head(hostIn).data[1]
               variables == e.data.variables
               j == find_compatible_driver(drivers, e.data)
               i == IF j > 0 THEN j ELSE Len(drivers) + 1
               old == IF j > 0 THEN drivers[j].variables ELSE EmptyDict
               new == drivers'[i].variables
               given == {k \in 1..Len(variables) : variables[k].data.handle # None}
               created == {k \in given : variables[k].id \notin DOMAIN old}
               adds == AddVariables(sent')
           IN /\ DOMAIN new = (DOMAIN old) \cup {variables[k].id : k \in given}
              /\ \A id \in (DOMAIN old) \ {variables[k].id : k \in given} : new[id] = old[id]
              /\ \A k \in given :
                     IF k \in created
                     THEN /\ new[variables[k].id].handlers = <<variables[k].data.handle>>
                          /\ new[variables[k].id].value = None
                     ELSE new[variables[k].id] =
                              [old[variables[k].id] EXCEPT
                                  !.handlers = Append(@, variables[k].data.handle)]
              /\ IF created = {}
                 THEN adds = {}
                 ELSE /\ Cardinality(adds) = 1
                      /\ Len(sent') = 1
                      /\ \A f \in adds :
                             /\ f.to = drivers'[i].name
                             /\ DOMAIN f.data = {variables[k].id : k \in created}
                             /\ \A k \in created : f.data[variables[k].id] = variables[k].data]_vars

\* The second entry names x again, y for the first time and nothing else with
\* a handle: x has two handlers, y one, and the worker was told of y alone
C29_Witness ==
    /\ Len(drivers) = 1
    /\ DOMAIN drivers[1].variables = {"x", "y"}
    /\ drivers[1].variables["x"].handlers = <<"vh1", "vh2">>
    /\ drivers[1].variables["y"].handlers = <<"vh1">>
    /\ \E f \in AddVariables(sent) : DOMAIN f.data = {"y"}

\* The drivers whose channel gives the pass at least one message
Speaking == {i \in 1..Len(drivers) : Taken(drivers[i].pipe) # <<>>}

\* C30: a worker STATUS(s) message with s equal to the driver's status writes
\* nothing: the record and status_updates stay as they are. With another s it
\* sets the record's status to s and status_updates[h] = s for every handle h
\* of the driver; the entries of all other handles stay as they are and none
\* is added. Checked where the messages are applied, in the reconciler pass; a
\* pass that takes that one message sends the host the STATUS frame with
\* exactly this map, or none when the map is empty.
C30_StatusMessageEffect ==
    [][(pc = "run_once" /\ pc' = "poll") =>
           /\ \A i \in 1..Len(drivers) : \A s \in DriverStatus :
                  LET r == apply_message(Rec, i, [cmd |-> "STATUS", data |-> s])
                      hs == Range(drivers[i].handlers)
                  IN IF s = drivers[i].status
                     THEN r.drivers = drivers /\ r.status_updates = status_updates
                     ELSE /\ r.drivers = [drivers EXCEPT ![i].status = s]
                          /\ DOMAIN r.status_updates = (DOMAIN status_updates) \cup hs
                          /\ \A h \in hs : r.status_updates[h] = s
                          /\ \A h \in (DOMAIN status_updates) \ hs :
                                 r.status_updates[h] = status_updates[h]
           /\ \A i \in Speaking :
                  (Speaking = {i} /\ Len(Taken(drivers[i].pipe)) = 1
                      /\ drivers[i].pipe[1].cmd = "STATUS") =>
                      LET s == drivers[i].pipe[1].data
                          hs == IF s = drivers[i].status THEN {}
                                ELSE Range(drivers[i].handlers)
                          expected == [h \in (DOMAIN status_updates) \cup hs |->
                                          IF h \in hs THEN s ELSE status_updates[h]]
                      IN /\ drivers'[i].status = s
                         /\ \A k \in 1..Len(drivers) :
                                k # i => drivers'[k].status = drivers[k].status
                         /\ StatusFrames(hostOut') =
                                IF DOMAIN expected = {} THEN {}
                                ELSE {Frame("STATUS", expected)}]_vars

\* A pass has taken a STATUS message of a driver with two handles and another
\* status: the STATUS frame maps both handles to the new status
C30_Witness ==
    /\ pc = "poll"
    /\ Len(drivers) = 1
    /\ drivers[1].handlers = <<"h1", "h2">>
    /\ drivers[1].status = ERROR
    /\ StatusFrames(hostOut) = {Frame("STATUS", [h \in {"h1", "h2"} |-> ERROR])}

\* The INFO frames among the frames out
InfoFrames(out) == {out[k] : k \in {j \in 1..Len(out) : out[j].cmd = "INFO"}}

\* C31: a worker INFO message whose text contains "Latency" changes the
\* driver's latency and nothing else: info, info_log and info_updates stay as
\* they are, and a pass that takes that one message sends no INFO frame. Every
\* other INFO text is appended to info_log (kept to its last five), becomes
\* info, and is written to info_updates under every handle of the driver, also
\* when it equals the previous info; the pass then sends the INFO frame.
C31_InfoMessageEffect ==
    [][(pc = "run_once" /\ pc' = "poll") =>
           /\ \A i \in 1..Len(drivers) : \A m \in InfoMessages :
                  LET r == apply_message(Rec, i, m)
                      hs == Range(drivers[i].handlers)
                  IN IF HasLatency(m.data)
                     THEN r = [Rec EXCEPT !.drivers[i].latency = m.data]
                     ELSE /\ r = [Rec EXCEPT
                                     !.drivers[i].info_log = r.drivers[i].info_log,
                                     !.drivers[i].info = m.data,
                                     !.info_updates = r.info_updates]
                          /\ r.drivers[i].info_log =
                                 Suffix(Append(drivers[i].info_log, m.data), 5)
                          /\ DOMAIN r.info_updates = (DOMAIN info_updates) \cup hs
                          /\ \A h \in hs : r.info_updates[h] = m.data
                          /\ \A h \in (DOMAIN info_updates) \ hs :
                                 r.info_updates[h] = info_updates[h]
           /\ \A i \in Speaking :
                  (Speaking = {i} /\ Len(Taken(drivers[i].pipe)) = 1
                      /\ drivers[i].pipe[1].cmd = "INFO") =>
                      LET text == drivers[i].pipe[1].data
                      IN IF HasLatency(text)
                         THEN /\ InfoFrames(hostOut') = {}
                              /\ drivers'[i].info_log = drivers[i].info_log
                         ELSE /\ InfoFrames(hostOut') =
                                     {Frame("INFO", [h \in Range(drivers[i].handlers) |-> text])}
                              /\ drivers'[i].info_log =
                                     Suffix(Append(drivers[i].info_log, text), 5)]_vars

\* Three messages have been received, the text "a" twice and a latency
\* report: the log holds "a" twice and nothing of the report, and the last
\* pass that took an "a" sent it to the host although info already was "a"
C31_Witness ==
    /\ pc = "poll"
    /\ Len(drivers) = 1
    /\ drivers[1].info_log = << <<"a">>, <<"a">> >>
    /\ used.worker = 3
    /\ drivers[1].pipe = <<>>
    /\ InfoFrames(hostOut) = {Frame("INFO", [h \in {"h1"} |-> <<"a">>])}

\* The data of the messages of kind cmd among msgs, in their order
RECURSIVE DataOf(_, _)
DataOf(msgs, cmd) ==
    IF msgs = <<>> THEN <<>>
    ELSE (IF Head(msgs).cmd = cmd THEN <<Head(msgs).data>> ELSE <<>>) \o DataOf(Tail(msgs), cmd)

\* The last element of a sequence that is not empty
Last(s) == s[Len(s)]

\* C32: a reconciler pass takes from every driver's channel its first
\* max_pipe_loops (10) messages, or all of them when there are fewer, messages
\* of every kind counting, and leaves the rest queued: so it takes at least one
\* message of every driver whose channel is not empty, whatever the other
\* drivers have queued. The effects seen after the pass are those of the
\* messages taken and of no other: so many reads of x, so many error logs, the
\* last status taken. The drivers are polled in the order of the registry: of
\* two drivers reporting x under a shared handle in one pass, the later one's
\* value is the one the UPDATES frame carries.
C32_PassTakesCappedShare ==
    [][(pc = "run_once" /\ pc' = "poll") =>
           LET taken(i) == Taken(drivers[i].pipe)
               reads(i) == DataOf(taken(i), "UPDATE")
               reporting == {i \in 1..Len(drivers) : reads(i) # <<>>}
           IN /\ \A i \in 1..Len(drivers) :
                     /\ Len(taken(i)) <= 10
                     /\ drivers[i].pipe # <<>> => Len(taken(i)) >= 1
                     /\ drivers[i].pipe = taken(i) \o drivers'[i].pipe
                     /\ drivers'[i].variables["x"].read_count =
                            drivers[i].variables["x"].read_count + Len(reads(i))
                     /\ drivers'[i].status =
                            IF DataOf(taken(i), "STATUS") = <<>> THEN drivers[i].status
                            ELSE Last(DataOf(taken(i), "STATUS"))
              /\ Len(logs') =
                     Cardinality({ik \in (1..Len(drivers)) \X (1..10) :
                                     /\ ik[2] <= Len(taken(ik[1]))
                                     /\ taken(ik[1])[ik[2]].cmd = "ALIVE"})
              /\ reporting # {} =>
                     LET i == CHOOSE z \in reporting : \A y \in reporting : y <= z
                     IN UpdatesFrames(hostOut') =
                            {Frame("UPDATES", [h \in {"vh1"} |-> Last(reads(i))[1].value])}]_vars

\* The first worker had eleven messages queued and the second one: the pass
\* took the first ten of the first, leaving the eleventh, and the one of the
\* second, which was sent after all of them
C32_Witness ==
    /\ pc = "poll"
    /\ used.worker = 12
    /\ Len(drivers) = 2
    /\ drivers[1].pipe = <<ChattyMessage(11)>>
    /\ drivers[1].variables["x"].read_count = 2
    /\ drivers[2].pipe = <<>>
    /\ drivers[2].info_log = <<ChattyMessage(12).data>>

\* The k-th message is on some driver's channel
Queued(k) ==
    \E i \in 1..Len(drivers) : \E p \in 1..Len(drivers[i].pipe) :
        /\ drivers[i].pipe[p].cmd = ChattyMessage(k).cmd
        /\ drivers[i].pipe[p] = ChattyMessage(k)

\* C33: a worker's messages are applied in the order it sent them and none is
\* lost. A pass takes a prefix of the channel and leaves the rest queued in
\* its order; the texts, values and variable texts it took are applied in
\* that order (the info log gains the texts in order, the last value and the
\* last variable text taken are the ones kept); no other step takes anything
\* from a channel; and while the manager keeps cycling no message stays
\* queued for ever: again and again it is not on a channel, which it leaves
\* only by such a pass.
C33_InOrderAndNoneLost ==
    /\ [][(pc = "run_once" /\ pc' = "poll") =>
              \A i \in 1..Len(drivers) :
                  LET taken == Taken(drivers[i].pipe)
                      reads == DataOf(taken, "UPDATE")
                      notes == DataOf(taken, "VAR_INFO")
                  IN /\ drivers[i].pipe = taken \o drivers'[i].pipe
                     /\ drivers'[i].info_log =
                            Suffix(drivers[i].info_log \o DataOf(taken, "INFO"), 5)
                     /\ drivers'[i].variables["x"].value =
                            IF reads = <<>> THEN drivers[i].variables["x"].value
                            ELSE Last(reads)[1].value
                     /\ drivers'[i].variables["x"].info =
                            IF notes = <<>> THEN drivers[i].variables["x"].info
                            ELSE Last(notes).msg]_vars
    /\ [][~(pc = "run_once" /\ pc' = "poll") =>
              \A i \in 1..Len(drivers) :
                  /\ Len(drivers') >= i
                  /\ Len(drivers'[i].pipe) >= Len(drivers[i].pipe)
                  /\ SubSeq(drivers'[i].pipe, 1, Len(drivers[i].pipe)) = drivers[i].pipe]_vars
    /\ \A k \in 1..MaxChattySends : []<>~Queued(k)

\* The last pass took the eleventh message of the first worker and nothing
\* else, while the twelfth message, sent after it by the second worker, had
\* been applied before: an earlier pass left the eleventh behind its ten, and
\* it has come through, x holding its value after three reads
C33_Witness ==
    /\ pc = "poll"
    /\ counter = 0
    /\ used.worker = 12
    /\ Len(drivers) = 2
    /\ drivers[1].pipe = <<>>
    /\ drivers[2].pipe = <<>>
    /\ drivers[1].variables["x"].value = "11"
    /\ drivers[1].variables["x"].read_count = 3
    /\ drivers[1].info_log = << <<"2">>, <<"7">> >>
    /\ drivers[2].info_log = << <<"12">> >>
    /\ UpdatesFrames(hostOut) = {Frame("UPDATES", [h \in {"vh1"} |-> "11"])}
    /\ InfoFrames(hostOut) = {}

\* The manager takes a frame from the host channel
FrameTaken == pc = "poll" /\ hostIn # <<>> /\ hostIn' = Tail(hostIn) /\ pc' # "crashed"

\* C34: one loop iteration dispatches at most 10 host frames, each the oldest
\* one waiting. The host is sent a frame of the command's tag for a
\* SETUP_DRIVERS frame (as it is dispatched) and for a CLEAN frame (once the
\* joins have returned), and for no other: UPDATES and unknown commands are
\* followed by no frame, and frames with the tags SETUP_DRIVERS and CLEAN are
\* sent in no other step. An unknown command changes no driver, variable,
\* handle or pending-update state and sends no worker anything.
C34_DispatchCapAndReplies ==
    [][/\ FrameTaken =>
              /\ counter < 10
              /\ handled' = <<Head(hostIn)>>
              /\ CASE Head(hostIn).cmd = "SETUP_DRIVERS" ->
                        /\ counter' = counter + 1
                        /\ Len(hostOut') = 1
                        /\ hostOut'[1].cmd = "SETUP_DRIVERS"
                        /\ DOMAIN hostOut'[1].data =
                               {Head(hostIn).data[k].handle : k \in 1..Len(Head(hostIn).data)}
                   [] Head(hostIn).cmd = "CLEAN" ->
                        hostOut' = <<>> /\ pc' = "joining" /\ counter' = counter
                   [] Head(hostIn).cmd = "UPDATES" ->
                        hostOut' = <<>> /\ counter' = counter + 1
                   [] OTHER ->
                        /\ counter' = counter + 1
                        /\ hostOut' = <<>>
                        /\ sent' = <<>>
                        /\ <<drivers, driver_counter, handles, procs, running, status_updates,
                             info_updates, var_info_updates, value_updates>>' =
                           <<drivers, driver_counter, handles, procs, running, status_updates,
                             info_updates, var_info_updates, value_updates>>
       /\ (pc = "joining" /\ pc' # "joining") => (pc' = "reply" /\ hostOut' = <<>>)
       /\ (pc = "reply" /\ pc' # "reply") =>
              (hostOut' = <<Frame("CLEAN", "SUCCESS")>> /\ counter' = counter + 1)
       /\ (~FrameTaken /\ ~(pc = "reply" /\ pc' # "reply") /\ hostOut' # hostOut) =>
              \A k \in 1..Len(hostOut') : hostOut'[k].cmd \notin {"SETUP_DRIVERS", "CLEAN"}
       /\ counter' # counter => (counter' = counter + 1 \/ (counter' = 0 /\ pc = "run_once"))
       /\ counter' <= 10]_vars

\* Ten frames have been dispatched in this iteration, the last of them an
\* unknown command, and more are waiting: the drain has stopped at its cap
C34_Witness ==
    /\ pc = "run_once"
    /\ counter = 10
    /\ hostIn # <<>>
    /\ handled # <<>>
    /\ handled[1].cmd = "PING"
    /\ hostOut = <<>>
    /\ Len(drivers) = 1
    /\ Len(drivers[1].handlers) = 2

\* The frames of the update tag cmd that a map leads to: one when it is not empty
FrameFor(cmd, map) == IF DOMAIN map = {} THEN {} ELSE {Frame(cmd, map)}

\* C35: the entries written to the status, info, variable-info and value maps
\* in a cycle are sent at the end of that cycle, each map that is not empty in
\* one frame, and the four maps are empty when the next cycle begins and when
\* the loop ends: nothing is sent twice and nothing is lost, the entries a
\* SETUP_DRIVERS command wrote in the drain that also handled CLEAN included.
C35_WrittenEntriesSentOnce ==
    [][/\ (pc = "run_once" /\ pc' = "poll") =>
              LET r == poll_drivers(Rec)
              IN /\ StatusFrames(hostOut') = FrameFor("STATUS", r.status_updates)
                 /\ InfoFrames(hostOut') = FrameFor("INFO", r.info_updates)
                 /\ UpdatesFrames(hostOut') = FrameFor("UPDATES", r.value_updates)
                 /\ {hostOut'[k] : k \in {j \in 1..Len(hostOut') : hostOut'[j].cmd = "VAR_INFO"}}
                        = FrameFor("VAR_INFO", r.var_info_updates)
                 /\ Len(hostOut') <= 5
                 /\ status_updates' = EmptyDict /\ info_updates' = EmptyDict
                 /\ var_info_updates' = EmptyDict /\ value_updates' = EmptyDict
       /\ pc' = "closed" =>
              /\ status_updates' = EmptyDict /\ info_updates' = EmptyDict
              /\ var_info_updates' = EmptyDict /\ value_updates' = EmptyDict]_vars

\* C36: once the host has written a value to a variable (write_count counts
\* the accepted writes), a worker UPDATE that reports the value the variable
\* holds writes nothing: value_updates, read_count and the rest of the state
\* stay as they are, and a pass that takes that one message sends the host no
\* UPDATES frame. A host write and its echo do not come back to the host.
C36_EchoIsSilent ==
    [][(pc = "run_once" /\ pc' = "poll") =>
           /\ \A i \in 1..Len(drivers) : \A var_id \in DOMAIN drivers[i].variables :
                  drivers[i].variables[var_id].write_count > 0 =>
                      apply_message(Rec, i,
                          [cmd |-> "UPDATE",
                           data |-> <<Reading(var_id, drivers[i].variables[var_id].value)>>])
                      = Rec
           /\ \A i \in Speaking :
                  (/\ Speaking = {i}
                   /\ Len(Taken(drivers[i].pipe)) = 1
                   /\ drivers[i].pipe[1].cmd = "UPDATE"
                   /\ \A k \in 1..Len(drivers[i].pipe[1].data) :
                          LET e == drivers[i].pipe[1].data[k]
                          IN /\ e.id \in DOMAIN drivers[i].variables
                             /\ drivers[i].variables[e.id].write_count > 0
                             /\ drivers[i].variables[e.id].value = e.value) =>
                      /\ drivers'[i].variables = drivers[i].variables
                      /\ value_updates' = value_updates
                      /\ UpdatesFrames(hostOut') = {}]_vars

\* The host wrote "2" to x and the worker's report of "2" has been taken
\* since: x was written once and never read, and the host has seen no value
C36_Witness ==
    /\ pc = "poll"
    /\ Len(drivers) = 1
    /\ drivers[1].pipe = <<>>
    /\ drivers[1].variables["x"].value = "2"
    /\ drivers[1].variables["x"].write_count = 1
    /\ drivers[1].variables["x"].read_count = 0
    /\ <<1, "x">> \in DOMAIN wvalues
    /\ wvalues[<<1, "x">>] = <<"2">>
    /\ hvalues = <<>>
    /\ hostOut = <<>>

C38_WriteNeverComesBack ==
    [][/\ (/\ pc = "poll" /\ hostIn # <<>> /\ Head(hostIn).cmd = "UPDATES"
           /\ hostIn' = Tail(hostIn) /\ pc' # "crashed") =>
              LET data == Head(hostIn).data
                  target(k) == handles[data[k].handle]
                  final == {k \in 1..Len(data) :
                               /\ data[k].handle \in DOMAIN handles
                               /\ \A j \in (k + 1)..Len(data) :
                                      data[j].handle \in DOMAIN handles
                                          => target(j) # target(k)}
              IN /\ hostOut' = <<>>
                 /\ value_updates' = value_updates
                 /\ \A k \in final : \A i \in 1..Len(drivers) :
                        (drivers[i].name = target(k)[2] /\ drivers[i].status = RUNNING)
                            => drivers'[i].variables[target(k)[1]].value = data[k].value
       /\ (pc = "run_once" /\ pc' = "poll") =>
              \A i \in 1..Len(drivers) : \A var_id \in DOMAIN drivers[i].variables :
                  (/\ drivers[i].variables[var_id].write_count > 0
                   /\ \A k \in DOMAIN ValuesOf(Taken(drivers[i].pipe), var_id) :
                          ValuesOf(Taken(drivers[i].pipe), var_id)[k]
                              = drivers[i].variables[var_id].value) =>
                      \A f \in UpdatesFrames(hostOut') :
                          \A h \in Range(drivers[i].variables[var_id].handlers) :
                              h \notin DOMAIN f.data]_vars

\* x, under the handles vh1 and vh3, has been written twice and holds "2";
\* the worker's report of "2" has been taken, and the host has seen no value
\* under either handle
C38_Witness ==
    /\ pc = "poll"
    /\ Len(drivers) = 1
    /\ drivers[1].pipe = <<>>
    /\ drivers[1].variables["x"].handlers = <<"vh1", "vh3">>
    /\ drivers[1].variables["x"].value = "2"
    /\ drivers[1].variables["x"].write_count = 2
    /\ <<1, "x">> \in DOMAIN wvalues
    /\ wvalues[<<1, "x">>] = <<"2">>
    /\ hvalues = <<>>

\* C39: a setup entry that names an existing variable of the driver it reuses
\* under a new handle appends the handle to the variable's handlers and maps it
\* in the Handle Index, and that is all: value, info, parameters and both
\* counters stay, the worker is sent nothing, its channel and the pending
\* value and text maps stay, and the step sends the host no UPDATES frame.
\* Afterwards a reconciler pass sends the variable's last handle in an UPDATES
\* frame exactly when it takes a report that differs from the value current
\* when it is read.
C39_AliasOnlyAddsHandle ==
    [][/\ (SetupDispatched /\ Len(Head(hostIn).data) = 1) =>
              LET e == Head(hostIn).data[1]
                  variables == e.data.variables
                  j == find_compatible_driver(drivers, e.data)
              IN j > 0 =>
                     \A k \in 1..Len(variables) :
                         (/\ variables[k].data.handle # None
                          /\ variables[k].id \in DOMAIN drivers[j].variables) =>
                             LET old == drivers[j].variables[variables[k].id]
                                 new == drivers'[j].variables[variables[k].id]
                                 h == variables[k].data.handle
                             IN /\ new.handlers = Append(old.handlers, h)
                                /\ new.value = old.value
                                /\ new.info = old.info
                                /\ new.parameters = old.parameters
                                /\ new.write_count = old.write_count
                                /\ new.read_count = old.read_count
                                /\ DOMAIN handles' = (DOMAIN handles) \cup {h}
                                /\ handles'[h] = <<variables[k].id, drivers[j].name>>
                                /\ \A g \in (DOMAIN handles) \ {h} : handles'[g] = handles[g]
                                /\ sent' = <<>>
                                /\ drivers'[j].pipe = drivers[j].pipe
                                /\ drivers'[j].updates = drivers[j].updates
                                /\ value_updates' = value_updates
                                /\ var_info_updates' = var_info_updates
                                /\ UpdatesFrames(hostOut') = {}
       /\ (pc = "run_once" /\ pc' = "poll") =>
              \A i \in 1..Len(drivers) : \A var_id \in DOMAIN drivers[i].variables :
                  LET var == drivers[i].variables[var_id]
                      vs == ValuesOf(Taken(drivers[i].pipe), var_id)
                  IN Len(var.handlers) > 1 =>
                         ((\E f \in UpdatesFrames(hostOut') : Last(var.handlers) \in DOMAIN f.data)
                              <=> Differing(vs, var.value) # {})]_vars

\* x came under vh2 after the host had been sent its value "1"; of the worker's
\* reports 1, 1, 2 the host has seen 1 and 2 under vh1 and only 2 under vh2
C39_Witness ==
    /\ pc = "poll"
    /\ Len(drivers) = 1
    /\ drivers[1].variables["x"].handlers = <<"vh1", "vh2">>
    /\ drivers[1].variables["x"].value = "2"
    /\ drivers[1].variables["x"].read_count = 2
    /\ <<1, "x">> \in DOMAIN wvalues
    /\ wvalues[<<1, "x">>] = <<"1", "1", "2">>
    /\ DOMAIN hvalues = {"vh1", "vh2"}
    /\ hvalues["vh1"] = <<"1", "2">>
    /\ hvalues["vh2"] = <<"2">>

====
